---- MODULE Spec2Model ----
(***************************************************************************)
(* Model of the live-transcription core of wellbyn-notes-frontend:         *)
(*   - useDeepgramStreaming (the transcription link and the transcript     *)
(*     aggregator),                                                        *)
(*   - useStreamingRecorder (the recording session),                       *)
(*   - StreamingProcessor (the AudioWorklet framer).                       *)
(* React state is modelled as applied at the end of the handler that set   *)
(* it; refs are plain variables.  A WebSocket is modelled by its           *)
(* readyState and the events the browser may dispatch on it.               *)
(***************************************************************************)
EXTENDS Integers, Sequences, FiniteSets, TLC

(***************************************************************************)
(* Bounds of the model.                                                    *)
(***************************************************************************)
MaxSockets == 2
TranscriptSockets == 1
MaxFrames == 1
MaxCommittedLen == 7

(***************************************************************************)
(* State of useDeepgramStreaming.                                          *)
(***************************************************************************)
VARIABLES
  isConnected,        \* useState(false)
  isConnecting,       \* useState(false)
  transcript,         \* useState('') : the committed transcript
  interimTranscript,  \* useState('')
  error,              \* useState(null)
  wsRef,              \* useRef(null): 0 is null, else the socket's number
  isConnectedRef,     \* useRef(false)
  nSockets,           \* number of WebSocket objects constructed so far
  readyState,         \* readyState of every socket
  mustFail,           \* the browser has to fail this socket (closed while CONNECTING)
  resolved,           \* the `resolved` flag of the connect() call that made the socket
  result,             \* the value that call's promise resolved with
  connectionTimeout,  \* the 15 s timer of that call
  gotConnected,       \* a `connected` message has been delivered on the socket
  sent,               \* what was written to the sockets, in order: <<socket, payload>>
  pendingBlobs,       \* Blob frames whose arrayBuffer() has not resolved yet
  nFrames,            \* number of frames handed to sendAudio so far
  mounted,            \* the component using the hook is mounted
  lastOp              \* the operation that made the last step, with its argument

linkVars == <<isConnected, isConnecting, transcript, interimTranscript, error,
              wsRef, isConnectedRef, nSockets, readyState, mustFail, resolved,
              result, connectionTimeout, gotConnected, sent, pendingBlobs,
              nFrames, mounted, lastOp>>

(***************************************************************************)
(* State of useStreamingRecorder.  Every resource a startRecording() call  *)
(* creates is numbered with that call.                                     *)
(***************************************************************************)
VARIABLES
  isRecording,        \* useState(false)
  isPaused,           \* useState(false)
  recordingTime,      \* useState(0)
  recorderError,      \* useState(null), the recorder's `error`
  audioUrl,           \* useState(null): 0 is null, else the recorder whose blob it is
  audioContextRef,    \* useRef(null): 0 is null
  mediaStreamRef,     \* useRef(null)
  workletNodeRef,     \* useRef(null)
  sourceNodeRef,      \* useRef(null)
  timerRef,           \* useRef(null)
  startTimeRef,       \* useRef(0)
  pausedTimeRef,      \* useRef(0)
  isPausedRef,        \* useRef(false)
  mediaRecorderRef,   \* useRef(null)
  nStarts,            \* number of startRecording() calls so far
  startPc,            \* where each startRecording() call stands
  stream,             \* the MediaStream of each call: none, live, stopped
  context,            \* the AudioContext of each call: none, running, closed
  graph,              \* source -> worklet of each call: none, connected, disconnected
  recorder,           \* the MediaRecorder of each call: none, inactive, recording, paused
  interval,           \* the setInterval timer of each call: none, running, cleared
  due,                \* when that timer fires next
  now,                \* Date.now(), in ms since the page was loaded
  activeMs,           \* ms spent recording and not paused since the session started
  nWorkletFrames,     \* frames the worklets have posted to the main thread
  delivered,          \* the frames passed to onAudioData, in order
  recMounted,         \* the component using the recorder hook is mounted
  recOp               \* the recorder operation that made the last step

recVars == <<isRecording, isPaused, recordingTime, recorderError, audioUrl,
             audioContextRef, mediaStreamRef, workletNodeRef, sourceNodeRef,
             timerRef, startTimeRef, pausedTimeRef, isPausedRef, mediaRecorderRef,
             nStarts, startPc, stream, context, graph, recorder, interval, due,
             now, activeMs, nWorkletFrames, delivered, recMounted, recOp>>

(***************************************************************************)
(* State of StreamingProcessor, the AudioWorklet processor.                *)
(***************************************************************************)
VARIABLES
  buffer,             \* this.buffer, a Float32Array(bufferSize)
  bufferIndex,        \* this.bufferIndex
  posted,             \* the Int16Array frames posted on the port, in order
  captured            \* number of samples process() has been given so far

workletVars == <<buffer, bufferIndex, posted, captured>>

(***************************************************************************)
(* State of TranscriptionPanel, the component that uses both hooks.        *)
(***************************************************************************)
VARIABLES
  panelError,         \* useState(null), the panel's `error`
  uploadedFile,       \* useState(null): NoFile is null
  uploadedAudioUrl,   \* useState(null): FALSE is null
  isTranscribing,     \* useState(false)
  isRunningWorkflow,  \* useState(false)
  requests,           \* the requests made to the backend, in order
  transcribePc,       \* where the handleTranscribe() call stands, and the file it took
  panelPc,            \* where the panel's startRecording() call stands
  panelOp             \* the panel operation that made the last step

panelVars == <<panelError, uploadedFile, uploadedAudioUrl, isTranscribing,
               isRunningWorkflow, requests, transcribePc, panelPc, panelOp>>

vars == <<linkVars, recVars, workletVars, panelVars>>

Sockets == 1..MaxSockets

(***************************************************************************)
(* Text.  A string is a sequence of characters; Missing is an absent       *)
(* `text` field (undefined).                                               *)
(***************************************************************************)
Whitespace == {" "}
Missing == <<"undefined">>
Texts == { <<>>, <<" ">>, <<"a">>, <<" ", "a", " ", "b", " ">> }

RECURSIVE TrimStart(_)
TrimStart(s) ==
  IF s # <<>> /\ Head(s) \in Whitespace THEN TrimStart(Tail(s)) ELSE s

RECURSIVE TrimEnd(_)
TrimEnd(s) ==
  IF s # <<>> /\ s[Len(s)] \in Whitespace THEN TrimEnd(SubSeq(s, 1, Len(s) - 1)) ELSE s

\* String.prototype.trim
Trim(s) == TrimEnd(TrimStart(s))

IsPrefix(s, t) == Len(s) <= Len(t) /\ SubSeq(t, 1, Len(s)) = s


(***************************************************************************)
(* useDeepgramStreaming: the transcription link.                           *)
(***************************************************************************)
StopMsg == 0   \* JSON.stringify({ type: 'stop' }), as a payload in `sent`

\* The inbound messages: JSON.parse(event.data), or what fails to parse.
ControlMessages ==
  [type : {"connected", "error", "malformed", "unknown"}, text : {Missing}, is_final : {FALSE}]

TranscriptMessages ==
  [type : {"transcript"}, text : Texts \cup {Missing}, is_final : BOOLEAN]

Messages == ControlMessages \cup TranscriptMessages

LinkInit ==
  /\ isConnected = FALSE
  /\ isConnecting = FALSE
  /\ transcript = <<>>
  /\ interimTranscript = <<>>
  /\ error = "null"
  /\ wsRef = 0
  /\ isConnectedRef = FALSE
  /\ nSockets = 0
  /\ readyState = [s \in Sockets |-> "NONE"]
  /\ mustFail = [s \in Sockets |-> FALSE]
  /\ resolved = [s \in Sockets |-> FALSE]
  /\ result = [s \in Sockets |-> "pending"]
  /\ connectionTimeout = [s \in Sockets |-> "null"]
  /\ gotConnected = [s \in Sockets |-> FALSE]
  /\ sent = <<>>
  /\ pendingBlobs = {}
  /\ nFrames = 0
  /\ mounted = TRUE
  /\ lastOp = <<"init", 0>>

WsCloseMut(rs, s) == rs

\* WebSocket.close(): a socket that is connecting or open starts closing.
WsClose(rs, s) ==
  [rs EXCEPT ![s] = IF @ \in {"CONNECTING", "OPEN"} THEN "CLOSING" ELSE @]

\* close() on a socket that is still connecting fails the connection: the
\* browser dispatches `error` before `close` on it.
WsCloseFails(mf, rs, s) == [mf EXCEPT ![s] = @ \/ rs[s] = "CONNECTING"]

\* clearTimeout(connectionTimeout)
ClearTimeout(ct, s) == [ct EXCEPT ![s] = IF @ = "armed" THEN "cleared" ELSE @]

ResolveOnceMut(res, rsl, s, v) == [res EXCEPT ![s] = v]

\* if (!resolved) { resolved = true; resolve(v); }
ResolveOnce(res, rsl, s, v) == IF rsl[s] THEN res ELSE [res EXCEPT ![s] = v]

\* isReady(): wsRef.current?.readyState === WebSocket.OPEN && isConnectedRef.current
IsReady == wsRef # 0 /\ readyState[wsRef] = "OPEN" /\ isConnectedRef

ConnectAlreadyOpenMut == wsRef # 0 /\ readyState[wsRef] = "CONNECTING" /\ isConnectedRef

\* connect(): if (wsRef.current?.readyState === WebSocket.OPEN && isConnectedRef.current) return true
ConnectAlreadyOpen == wsRef # 0 /\ readyState[wsRef] = "OPEN" /\ isConnectedRef

\* The body of connect(): what it does to the hook's connection state.
\* `throws`: the WebSocket constructor raises.
ConnectBody(throws) ==
  /\ mounted
  /\ IF ConnectAlreadyOpen
     THEN /\ lastOp' = <<"connect", "true">>
          /\ UNCHANGED <<isConnected, isConnecting, error, wsRef, isConnectedRef,
                         nSockets, readyState, mustFail, resolved, result,
                         connectionTimeout>>
     ELSE /\ nSockets < MaxSockets
          /\ isConnectedRef' = FALSE
          /\ isConnected' = FALSE
          /\ LET rs == IF wsRef # 0 THEN WsClose(readyState, wsRef) ELSE readyState
                 mf == IF wsRef # 0 THEN WsCloseFails(mustFail, readyState, wsRef) ELSE mustFail
                 ws == nSockets + 1
             IN  IF throws
                 THEN /\ error' = "Failed to create WebSocket connection"
                      /\ isConnecting' = FALSE
                      /\ wsRef' = 0
                      /\ readyState' = rs
                      /\ mustFail' = mf
                      /\ lastOp' = <<"connect", "false">>
                      /\ UNCHANGED <<nSockets, resolved, result, connectionTimeout>>
                 ELSE /\ error' = "null"
                      /\ isConnecting' = TRUE
                      /\ nSockets' = ws
                      /\ readyState' = [rs EXCEPT ![ws] = "CONNECTING"]
                      /\ mustFail' = mf
                      /\ resolved' = [resolved EXCEPT ![ws] = FALSE]
                      /\ result' = [result EXCEPT ![ws] = "pending"]
                      /\ connectionTimeout' = [connectionTimeout EXCEPT ![ws] = "armed"]
                      /\ wsRef' = ws
                      /\ lastOp' = <<"connect", "pending">>
  /\ UNCHANGED <<gotConnected, sent, pendingBlobs, nFrames, mounted>>

\* connect()
Connect(throws) ==
  /\ ConnectBody(throws)
  /\ UNCHANGED <<transcript, interimTranscript>>
  /\ UNCHANGED <<recVars, workletVars, panelVars>>

OnOpenMut(s) ==
  /\ isConnectedRef' = TRUE
  /\ isConnected' = TRUE
  /\ isConnecting' = FALSE
  /\ connectionTimeout' = ClearTimeout(connectionTimeout, s)
  /\ result' = ResolveOnce(result, resolved, s, "true")
  /\ resolved' = [resolved EXCEPT ![s] = TRUE]

\* ws.onopen: waits for the "connected" message, changes nothing
OnOpen(s) ==
  UNCHANGED <<isConnectedRef, isConnected, isConnecting, connectionTimeout, result, resolved>>

\* The transport of socket s opens: the browser dispatches `open`.
TransportOpen(s) ==
  /\ readyState[s] = "CONNECTING"
  /\ readyState' = [readyState EXCEPT ![s] = "OPEN"]
  /\ OnOpen(s)
  /\ lastOp' = <<"open", s>>
  /\ UNCHANGED <<transcript, interimTranscript, error, wsRef, nSockets, mustFail,
                 gotConnected, sent, pendingBlobs, nFrames, mounted>>
  /\ UNCHANGED <<recVars, workletVars, panelVars>>

NewTextMut(text) == IF text = Missing THEN <<>> ELSE text

\* const newText = data.text?.trim() || ''
NewText(text) == IF text = Missing THEN <<>> ELSE Trim(text)

JoinFinalMut(prev, newText) == IF prev # <<>> THEN prev \o newText ELSE newText

JoinFinalReplace(prev, newText) == newText

\* return prev ? `${prev} ${newText}` : newText
JoinFinal(prev, newText) == IF prev # <<>> THEN prev \o <<" ">> \o newText ELSE newText

AppendFinalMut(prev, text) == JoinFinal(prev, NewText(text))

\* the updater given to setTranscript on a final transcript event
AppendFinal(prev, text) ==
  LET newText == NewText(text)
  IN  IF newText = <<>> THEN prev ELSE JoinFinal(prev, newText)

InterimTextMut(text) == IF text = Missing THEN <<>> ELSE Trim(text)

\* data.text || ''
InterimText(text) == IF text = Missing THEN <<>> ELSE text

SwitchCaseMut(m) ==
  IF m.type \in {"connected", "transcript"} THEN m.type ELSE "error"

\* JSON.parse(event.data) and switch (data.type): the case that runs, "none" when
\* the parse raised (and was caught) or no case matches
SwitchCase(m) ==
  IF m.type \in {"connected", "transcript", "error"} THEN m.type ELSE "none"

\* ws.onmessage of socket s.  The browser delivers messages on open sockets only.
OnMessage(s, m) ==
  /\ readyState[s] = "OPEN"
  /\ lastOp' = <<"message", m>>
  /\ CASE SwitchCase(m) = "connected" ->
            /\ isConnectedRef' = TRUE
            /\ isConnected' = TRUE
            /\ isConnecting' = FALSE
            /\ connectionTimeout' = ClearTimeout(connectionTimeout, s)
            /\ result' = ResolveOnce(result, resolved, s, "true")
            /\ resolved' = [resolved EXCEPT ![s] = TRUE]
            /\ gotConnected' = [gotConnected EXCEPT ![s] = TRUE]
            /\ UNCHANGED <<transcript, interimTranscript, error>>
       [] SwitchCase(m) = "transcript" ->
            /\ IF m.is_final
               THEN /\ Len(AppendFinal(transcript, m.text)) <= MaxCommittedLen
                    /\ transcript' = AppendFinal(transcript, m.text)
                    /\ interimTranscript' = <<>>
               ELSE /\ interimTranscript' = InterimText(m.text)
                    /\ UNCHANGED transcript
            /\ UNCHANGED <<isConnectedRef, isConnected, isConnecting, connectionTimeout,
                           result, resolved, gotConnected, error>>
       [] SwitchCase(m) = "error" ->
            /\ error' = "server"
            /\ isConnecting' = FALSE
            /\ connectionTimeout' = ClearTimeout(connectionTimeout, s)
            /\ result' = ResolveOnce(result, resolved, s, "false")
            /\ resolved' = [resolved EXCEPT ![s] = TRUE]
            /\ UNCHANGED <<isConnectedRef, isConnected, transcript, interimTranscript,
                           gotConnected>>
       [] OTHER ->
            \* JSON.parse raised and was caught, or no case of the switch matched
            UNCHANGED <<isConnectedRef, isConnected, isConnecting, connectionTimeout,
                        result, resolved, gotConnected, transcript, interimTranscript,
                        error>>
  /\ UNCHANGED <<wsRef, nSockets, readyState, mustFail, sent, pendingBlobs, nFrames,
                 mounted>>
  /\ UNCHANGED <<recVars, workletVars, panelVars>>

\* The hook's fields that ws.onerror and ws.onclose write.
Hook ==
  [isConnected |-> isConnected, isConnecting |-> isConnecting, error |-> error,
   wsRef |-> wsRef, connectionTimeout |-> connectionTimeout,
   resolved |-> resolved, result |-> result]

\* ws.onerror of socket s
OnError(h, s) ==
  [h EXCEPT !.error = "WebSocket connection error",
            !.isConnecting = FALSE,
            !.connectionTimeout = ClearTimeout(@, s),
            !.result = ResolveOnce(@, h.resolved, s, "false"),
            !.resolved = [@ EXCEPT ![s] = TRUE]]

OnCloseMut(h, s) ==
  [h EXCEPT !.isConnecting = FALSE,
            !.wsRef = IF @ = s THEN 0 ELSE @,
            !.connectionTimeout = ClearTimeout(@, s),
            !.result = ResolveOnce(@, h.resolved, s, "false"),
            !.resolved = [@ EXCEPT ![s] = TRUE]]

\* ws.onclose of socket s
OnClose(h, s) ==
  [h EXCEPT !.isConnected = FALSE,
            !.isConnecting = FALSE,
            !.wsRef = IF @ = s THEN 0 ELSE @,
            !.connectionTimeout = ClearTimeout(@, s),
            !.result = ResolveOnce(@, h.resolved, s, "false"),
            !.resolved = [@ EXCEPT ![s] = TRUE]]

\* Socket s is closed: the browser dispatches `error` if the connection
\* failed, then `close` with the code, both in one task.
SocketClosed(s, code, withError) ==
  /\ readyState[s] \in {"CONNECTING", "OPEN", "CLOSING"}
  /\ (readyState[s] = "CONNECTING" \/ mustFail[s]) => withError
  /\ withError => code # 1000
  /\ readyState' = [readyState EXCEPT ![s] = "CLOSED"]
  /\ mustFail' = [mustFail EXCEPT ![s] = FALSE]
  /\ LET h == OnClose(IF withError THEN OnError(Hook, s) ELSE Hook, s)
     IN  /\ isConnected' = h.isConnected
         /\ isConnecting' = h.isConnecting
         /\ error' = h.error
         /\ wsRef' = h.wsRef
         /\ connectionTimeout' = h.connectionTimeout
         /\ resolved' = h.resolved
         /\ result' = h.result
  /\ lastOp' = <<"close", code>>
  /\ UNCHANGED <<transcript, interimTranscript, isConnectedRef, nSockets,
                 gotConnected, sent, pendingBlobs, nFrames, mounted>>
  /\ UNCHANGED <<recVars, workletVars, panelVars>>

\* The 15 s timer of the connect() call that made socket s fires.
Timeout(s) ==
  /\ connectionTimeout[s] = "armed"
  /\ connectionTimeout' = [connectionTimeout EXCEPT ![s] = "fired"]
  /\ IF ~resolved[s]
     THEN /\ error' = "Connection timeout"
          /\ isConnecting' = FALSE
          /\ readyState' = WsClose(readyState, s)
          /\ mustFail' = WsCloseFails(mustFail, readyState, s)
          /\ resolved' = [resolved EXCEPT ![s] = TRUE]
          /\ result' = [result EXCEPT ![s] = "false"]
     ELSE UNCHANGED <<error, isConnecting, readyState, mustFail, resolved, result>>
  /\ lastOp' = <<"timeout", s>>
  /\ UNCHANGED <<isConnected, transcript, interimTranscript, wsRef, isConnectedRef,
                 nSockets, gotConnected, sent, pendingBlobs, nFrames, mounted>>
  /\ UNCHANGED <<recVars, workletVars, panelVars>>

\* The calls disconnect() makes on the current socket in the current state.
DisconnectCalls ==
  (IF wsRef # 0 /\ readyState[wsRef] = "OPEN" THEN {"send"} ELSE {})
  \cup (IF wsRef # 0 THEN {"close"} ELSE {})

DisconnectMut ==
  /\ mounted
  /\ IF wsRef # 0
     THEN /\ sent' = IF readyState[wsRef] = "OPEN"
                     THEN Append(sent, <<wsRef, StopMsg>>) ELSE sent
          /\ readyState' = WsClose(readyState, wsRef)
          /\ mustFail' = WsCloseFails(mustFail, readyState, wsRef)
          /\ wsRef' = 0
          /\ isConnectedRef' = FALSE
          /\ isConnected' = FALSE
          /\ interimTranscript' = <<>>
     ELSE UNCHANGED <<sent, readyState, mustFail, wsRef, isConnectedRef, isConnected,
                      interimTranscript>>
  /\ lastOp' = <<"disconnect", 0>>
  /\ UNCHANGED <<isConnecting, transcript, error, nSockets, resolved, result,
                 connectionTimeout, gotConnected, pendingBlobs, nFrames, mounted>>
  /\ UNCHANGED <<recVars, workletVars, panelVars>>

\* The body of disconnect(): what it does to the hook's state other than the
\* committed transcript, which it leaves alone.
DisconnectBody ==
  /\ mounted
  /\ IF wsRef # 0
     THEN /\ sent' = IF readyState[wsRef] = "OPEN"
                     THEN Append(sent, <<wsRef, StopMsg>>) ELSE sent
          /\ readyState' = WsClose(readyState, wsRef)
          /\ mustFail' = WsCloseFails(mustFail, readyState, wsRef)
          /\ wsRef' = 0
     ELSE UNCHANGED <<sent, readyState, mustFail, wsRef>>
  /\ isConnectedRef' = FALSE
  /\ isConnected' = FALSE
  /\ interimTranscript' = <<>>
  /\ lastOp' = <<"disconnect", 0>>
  /\ UNCHANGED <<isConnecting, error, nSockets, resolved, result,
                 connectionTimeout, gotConnected, pendingBlobs, nFrames, mounted>>

\* disconnect()
Disconnect ==
  /\ DisconnectBody
  /\ UNCHANGED transcript
  /\ UNCHANGED <<recVars, workletVars, panelVars>>

WsSendMut(snt, p) == <<p>> \o snt

\* ws.send(buffer): the payload is written to the socket after what was written before
WsSend(snt, p) == Append(snt, p)

SendAllowedMut == wsRef # 0 /\ readyState[wsRef] = "OPEN"

\* sendAudio(): wsReady && connected, else warn and return
SendAllowed == wsRef # 0 /\ readyState[wsRef] = "OPEN" /\ isConnectedRef

\* sendAudio(data) with the next frame; `kind` is ArrayBuffer or Blob
SendAudio(kind) ==
  /\ mounted
  /\ nFrames < MaxFrames
  /\ nFrames' = nFrames + 1
  /\ IF SendAllowed
     THEN IF kind = "Blob"
          THEN /\ pendingBlobs' = pendingBlobs \cup {<<wsRef, nFrames + 1>>}
               /\ UNCHANGED sent
          ELSE /\ sent' = WsSend(sent, <<wsRef, nFrames + 1>>)
               /\ UNCHANGED pendingBlobs
     ELSE UNCHANGED <<sent, pendingBlobs>>
  /\ lastOp' = <<"sendAudio", nFrames + 1>>
  /\ UNCHANGED <<isConnected, isConnecting, transcript, interimTranscript, error,
                 wsRef, isConnectedRef, nSockets, readyState, mustFail, resolved,
                 result, connectionTimeout, gotConnected, mounted>>
  /\ UNCHANGED <<recVars, workletVars, panelVars>>

\* sendData() resumes once data.arrayBuffer() has resolved: ws.send(buffer) on the
\* socket read at the call; a socket that is closing or closed discards it.
BlobResolved(p) ==
  /\ p \in pendingBlobs
  /\ pendingBlobs' = pendingBlobs \ {p}
  /\ sent' = IF readyState[p[1]] = "OPEN" THEN WsSend(sent, p) ELSE sent
  /\ lastOp' = <<"sendData", p[2]>>
  /\ UNCHANGED <<isConnected, isConnecting, transcript, interimTranscript, error,
                 wsRef, isConnectedRef, nSockets, readyState, mustFail, resolved,
                 result, connectionTimeout, gotConnected, nFrames, mounted>>
  /\ UNCHANGED <<recVars, workletVars, panelVars>>

\* clearTranscript()
ClearTranscript ==
  /\ mounted
  /\ transcript' = <<>>
  /\ interimTranscript' = <<>>
  /\ lastOp' = <<"clearTranscript", 0>>
  /\ UNCHANGED <<isConnected, isConnecting, error, wsRef, isConnectedRef, nSockets,
                 readyState, mustFail, resolved, result, connectionTimeout,
                 gotConnected, sent, pendingBlobs, nFrames, mounted>>
  /\ UNCHANGED <<recVars, workletVars, panelVars>>

\* The cleanup of the hook's effect, on unmount.
Unmount ==
  /\ mounted
  /\ mounted' = FALSE
  /\ IF wsRef # 0
     THEN /\ readyState' = WsClose(readyState, wsRef)
          /\ mustFail' = WsCloseFails(mustFail, readyState, wsRef)
     ELSE UNCHANGED <<readyState, mustFail>>
  /\ lastOp' = <<"unmount", 0>>
  /\ UNCHANGED <<isConnected, isConnecting, transcript, interimTranscript, error,
                 wsRef, isConnectedRef, nSockets, resolved, result, connectionTimeout,
                 gotConnected, sent, pendingBlobs, nFrames>>
  /\ UNCHANGED <<recVars, workletVars, panelVars>>

(***************************************************************************)
(* The link is explored in three specifications.  Transcript events write  *)
(* only transcript and interimTranscript, and sendAudio writes only `sent` *)
(* and the frame count, so each is explored with the connection's life     *)
(* cycle on its own.                                                       *)
(***************************************************************************)

\* The connection's life cycle.
Next ==
  \/ \E throws \in BOOLEAN : Connect(throws)
  \/ \E s \in Sockets : TransportOpen(s)
  \/ \E s \in Sockets, m \in ControlMessages : OnMessage(s, m)
  \/ \E s \in Sockets, code \in {1000, 1006}, withError \in BOOLEAN : SocketClosed(s, code, withError)
  \/ \E s \in Sockets : Timeout(s)
  \/ Disconnect
  \/ Unmount

\* The transcript aggregator, over at most TranscriptSockets connections.
TranscriptNext ==
  \/ \E throws \in BOOLEAN : Connect(throws) /\ nSockets' <= TranscriptSockets
  \/ \E s \in Sockets : TransportOpen(s)
  \/ \E s \in Sockets, m \in Messages : OnMessage(s, m)
  \/ \E s \in Sockets, code \in {1000, 1006}, withError \in BOOLEAN : SocketClosed(s, code, withError)
  \/ \E s \in Sockets : Timeout(s)
  \/ Disconnect
  \/ ClearTranscript
  \/ Unmount

\* Frame transmission.
AudioNext ==
  \/ \E throws \in BOOLEAN : Connect(throws)
  \/ \E s \in Sockets : TransportOpen(s)
  \/ \E s \in Sockets, m \in ControlMessages : OnMessage(s, m)
  \/ \E s \in Sockets, code \in {1000, 1006}, withError \in BOOLEAN : SocketClosed(s, code, withError)
  \/ \E s \in Sockets : Timeout(s)
  \/ Disconnect
  \/ \E kind \in {"ArrayBuffer", "Blob"} : SendAudio(kind)
  \/ \E p \in pendingBlobs : BlobResolved(p)

(***************************************************************************)
(* StreamingProcessor: the AudioWorklet framer.                            *)
(* A float sample is an integer count of 1/SampleUnit; the k-th sample the *)
(* device captures is Signal(k), which leaves [-1, 1] on some samples.     *)
(***************************************************************************)
bufferSize == 4096
MaxSamples == 12400
SampleUnit == 4
BlockLens == {0, 128, 1000, 4096, 9000}

Signal(k) == ((7 * k) % 13) - 6

\* Math.max(-1, Math.min(1, x))
Clamp(x) == IF x < -SampleUnit THEN -SampleUnit ELSE IF x > SampleUnit THEN SampleUnit ELSE x

\* the conversion of a number to an Int16Array element: truncate, wrap to 16 bits
ToInt16(num, den) ==
  LET t == IF num >= 0 THEN num \div den ELSE -((-num) \div den)
  IN  ((t + 32768) % 65536) - 32768

\* int16Buffer[j] = s < 0 ? s * 0x8000 : s * 0x7FFF, s the clamped sample
Quantize(x) ==
  LET s == Clamp(x)
  IN  IF s < 0 THEN ToInt16(s * 32768, SampleUnit) ELSE ToInt16(s * 32767, SampleUnit)

\* new Float32Array(n): n zeros
RECURSIVE Float32Array(_)
Float32Array(n) ==
  IF n = 0 THEN <<>>
  ELSE IF n % 2 = 0 THEN LET half == Float32Array(n \div 2) IN half \o half
  ELSE Append(Float32Array(n - 1), 0)

WorkletInit ==
  /\ buffer = Float32Array(bufferSize)
  /\ bufferIndex = 0
  /\ posted = <<>>
  /\ captured = 0

BufferFullMut(idx) == idx > bufferSize

\* if (this.bufferIndex >= this.bufferSize)
BufferFull(idx) == idx >= bufferSize

\* The body of the for loop of process(), on sample x: the processor's fields after it.
ProcessSample(st, x) ==
  LET buf == [st.buffer EXCEPT ![st.bufferIndex + 1] = x]
      idx == st.bufferIndex + 1
  IN  IF BufferFull(idx)
      THEN [buffer |-> Float32Array(bufferSize),
            bufferIndex |-> 0,
            posted |-> Append(st.posted, [j \in 1..bufferSize |-> Quantize(buf[j])])]
      ELSE [buffer |-> buf, bufferIndex |-> idx, posted |-> st.posted]

\* The for loop of process() over inputData[lo..hi], in order; inputData[i] is
\* sample first + i of the capture.
RECURSIVE ProcessLoop(_, _, _, _)
ProcessLoop(st, first, lo, hi) ==
  IF lo > hi THEN st
  ELSE IF lo = hi THEN ProcessSample(st, Signal(first + lo))
  ELSE LET mid == (lo + hi) \div 2
           done == ProcessLoop(st, first, lo, mid)
       IN  \* the test makes the evaluator finish lo..mid before it starts mid+1..hi
           IF done.bufferIndex >= 0 THEN ProcessLoop(done, first, mid + 1, hi) ELSE done

\* process(inputs) with a block of n samples; n = 0 is a call with no input channel
Process(n) ==
  /\ captured + n <= MaxSamples
  /\ LET st == ProcessLoop([buffer |-> buffer, bufferIndex |-> bufferIndex, posted |-> posted],
                           captured, 1, n)
     IN  /\ buffer' = st.buffer
         /\ bufferIndex' = st.bufferIndex
         /\ posted' = st.posted
  /\ captured' = captured + n
  /\ UNCHANGED <<linkVars, recVars, panelVars>>

WorkletNext == \E n \in BlockLens : Process(n)

(***************************************************************************)
(* useStreamingRecorder: the recording session.                            *)
(***************************************************************************)
MaxStarts == 2
TimerStarts == 1
MaxNow == 3000
TimeStep == 500
MaxWorkletFrames == 2
SessionCalls == 2

Starts == 1..MaxStarts

RecInit ==
  /\ isRecording = FALSE
  /\ isPaused = FALSE
  /\ recordingTime = 0
  /\ recorderError = "null"
  /\ audioUrl = 0
  /\ audioContextRef = 0
  /\ mediaStreamRef = 0
  /\ workletNodeRef = 0
  /\ sourceNodeRef = 0
  /\ timerRef = 0
  /\ startTimeRef = 0
  /\ pausedTimeRef = 0
  /\ isPausedRef = FALSE
  /\ mediaRecorderRef = 0
  /\ nStarts = 0
  /\ startPc = [k \in Starts |-> "none"]
  /\ stream = [k \in Starts |-> "none"]
  /\ context = [k \in Starts |-> "none"]
  /\ graph = [k \in Starts |-> "none"]
  /\ recorder = [k \in Starts |-> "none"]
  /\ interval = [k \in Starts |-> "none"]
  /\ due = [k \in Starts |-> 0]
  /\ now = 0
  /\ activeMs = 0
  /\ nWorkletFrames = 0
  /\ delivered = <<>>
  /\ recMounted = TRUE
  /\ recOp = <<"init", 0>>

\* No processor has been constructed.
WorkletNone ==
  /\ buffer = <<>>
  /\ bufferIndex = 0
  /\ posted = <<>>
  /\ captured = 0

\* new File(...): its size in bytes, its MIME type and the extension of its name
NoFile == [size |-> -1, type |-> "none", ext |-> "none"]

PanelInit ==
  /\ panelError = "null"
  /\ uploadedFile = NoFile
  /\ uploadedAudioUrl = FALSE
  /\ isTranscribing = FALSE
  /\ isRunningWorkflow = FALSE
  /\ requests = <<>>
  /\ transcribePc = <<"idle", FALSE>>
  /\ panelPc = <<"idle", 0>>
  /\ panelOp = <<"init", 0>>

Init == LinkInit /\ RecInit /\ WorkletNone /\ PanelInit

\* clearInterval(id)
ClearInterval(iv, k) == [iv EXCEPT ![k] = IF @ = "running" THEN "cleared" ELSE @]

\* The body of startRecording(), up to `await navigator.mediaDevices.getUserMedia(...)`
StartRecordingBody ==
  /\ recMounted
  /\ nStarts < MaxStarts
  /\ nStarts' = nStarts + 1
  /\ recorderError' = "null"
  /\ isPausedRef' = FALSE
  /\ startPc' = [startPc EXCEPT ![nStarts + 1] = "getUserMedia"]
  /\ recOp' = <<"startRecording", nStarts + 1>>
  /\ UNCHANGED <<isRecording, isPaused, recordingTime, audioUrl, audioContextRef,
                 mediaStreamRef, workletNodeRef, sourceNodeRef, timerRef, startTimeRef,
                 pausedTimeRef, mediaRecorderRef, stream, context, graph, recorder,
                 interval, due, now, activeMs, nWorkletFrames, delivered, recMounted>>

\* startRecording(), up to its first await
StartRecording ==
  /\ StartRecordingBody
  /\ UNCHANGED <<linkVars, workletVars, panelVars>>

\* catch (err) { setError('No se pudo acceder al micrófono. ...') }
StartFailed(k) ==
  /\ recorderError' = "microphone"
  /\ startPc' = [startPc EXCEPT ![k] = "failed"]

\* startRecording() call k resumes after getUserMedia and runs up to
\* `await audioContext.audioWorklet.addModule(workletUrl)`.
\* outcome: getUserMedia rejects; new AudioContext raises; neither.
GetUserMediaSettled(k, outcome) ==
  /\ startPc[k] = "getUserMedia"
  /\ CASE outcome = "rejected" ->
            /\ StartFailed(k)
            /\ UNCHANGED <<stream, mediaStreamRef, context, audioContextRef, graph,
                           sourceNodeRef>>
       [] outcome = "contextRaises" ->
            /\ stream' = [stream EXCEPT ![k] = "live"]
            /\ mediaStreamRef' = k
            /\ StartFailed(k)
            /\ UNCHANGED <<context, audioContextRef, graph, sourceNodeRef>>
       [] OTHER ->
            /\ stream' = [stream EXCEPT ![k] = "live"]
            /\ mediaStreamRef' = k
            /\ context' = [context EXCEPT ![k] = "running"]
            /\ audioContextRef' = k
            /\ graph' = [graph EXCEPT ![k] = "source"]
            /\ sourceNodeRef' = k
            /\ startPc' = [startPc EXCEPT ![k] = "addModule"]
            /\ UNCHANGED recorderError
  /\ recOp' = <<"getUserMedia", k>>
  /\ UNCHANGED <<isRecording, isPaused, recordingTime, audioUrl, workletNodeRef,
                 timerRef, startTimeRef, pausedTimeRef, isPausedRef, mediaRecorderRef,
                 nStarts, recorder, interval, due, now, activeMs, nWorkletFrames,
                 delivered, recMounted>>
  /\ UNCHANGED <<linkVars, workletVars, panelVars>>

\* startRecording() call k resumes after addModule and runs to its end.
\* outcome: addModule rejects; new AudioWorkletNode raises; new MediaRecorder
\* raises; mediaRecorder.start raises; none of them.
AddModuleSettled(k, outcome) ==
  /\ startPc[k] = "addModule"
  /\ CASE outcome \in {"rejected", "nodeRaises"} ->
            /\ StartFailed(k)
            /\ UNCHANGED <<workletNodeRef, graph, mediaRecorderRef, recorder,
                           isRecording, isPaused, startTimeRef, pausedTimeRef, timerRef,
                           interval, due, activeMs>>
       [] outcome = "recorderRaises" ->
            /\ workletNodeRef' = k
            /\ graph' = [graph EXCEPT ![k] = "connected"]
            /\ StartFailed(k)
            /\ UNCHANGED <<mediaRecorderRef, recorder, isRecording, isPaused,
                           startTimeRef, pausedTimeRef, timerRef, interval, due,
                           activeMs>>
       [] outcome = "recorderStartRaises" ->
            /\ workletNodeRef' = k
            /\ graph' = [graph EXCEPT ![k] = "connected"]
            /\ mediaRecorderRef' = k
            /\ recorder' = [recorder EXCEPT ![k] = "inactive"]
            /\ StartFailed(k)
            /\ UNCHANGED <<isRecording, isPaused, startTimeRef, pausedTimeRef,
                           timerRef, interval, due, activeMs>>
       [] OTHER ->
            /\ workletNodeRef' = k
            /\ graph' = [graph EXCEPT ![k] = "connected"]
            /\ mediaRecorderRef' = k
            /\ recorder' = [recorder EXCEPT ![k] = "recording"]
            /\ isRecording' = TRUE
            /\ isPaused' = FALSE
            /\ startTimeRef' = now
            /\ pausedTimeRef' = 0
            /\ timerRef' = k
            /\ interval' = [interval EXCEPT ![k] = "running"]
            /\ due' = [due EXCEPT ![k] = now + 1000]
            /\ activeMs' = 0
            /\ startPc' = [startPc EXCEPT ![k] = "done"]
            /\ UNCHANGED recorderError
  /\ recOp' = <<"addModule", k>>
  /\ UNCHANGED <<recordingTime, audioUrl, audioContextRef, mediaStreamRef,
                 sourceNodeRef, isPausedRef, nStarts, stream, context, now,
                 nWorkletFrames, delivered, recMounted>>
  /\ UNCHANGED <<linkVars, workletVars, panelVars>>

\* mediaRecorder.state !== 'inactive'.  stop() makes the state inactive at once; the
\* model's "stopping" is an inactive recorder whose stop event is still to come.
RecorderActive(k) == recorder[k] \in {"recording", "paused"}

\* The calls stopRecording() makes on the session's resources in the current state.
StopCalls ==
  (IF timerRef # 0 THEN {"clearInterval"} ELSE {})
  \cup (IF workletNodeRef # 0 THEN {"workletNode.disconnect"} ELSE {})
  \cup (IF sourceNodeRef # 0 THEN {"sourceNode.disconnect"} ELSE {})
  \cup (IF audioContextRef # 0 THEN {"audioContext.close"} ELSE {})
  \cup (IF mediaRecorderRef # 0 /\ RecorderActive(mediaRecorderRef)
        THEN {"mediaRecorder.stop"} ELSE {})
  \cup (IF mediaStreamRef # 0 THEN {"track.stop"} ELSE {})

StopRecordingMut ==
  /\ recMounted
  /\ interval' = IF timerRef # 0 THEN ClearInterval(interval, timerRef) ELSE interval
  /\ graph' = IF sourceNodeRef # 0
              THEN [graph EXCEPT ![sourceNodeRef] = "disconnected"] ELSE graph
  /\ context' = IF audioContextRef # 0
                THEN [context EXCEPT ![audioContextRef] = "closed"] ELSE context
  /\ recorder' = IF mediaRecorderRef # 0 /\ RecorderActive(mediaRecorderRef)
                 THEN [recorder EXCEPT ![mediaRecorderRef] = "stopping"]
                 ELSE recorder
  /\ stream' = IF mediaStreamRef # 0
               THEN [stream EXCEPT ![mediaStreamRef] = "stopped"] ELSE stream
  /\ isRecording' = FALSE
  /\ isPaused' = FALSE
  /\ recOp' = <<"stopRecording", 0>>
  /\ UNCHANGED <<timerRef, workletNodeRef, sourceNodeRef, audioContextRef, mediaStreamRef>>
  /\ UNCHANGED <<recordingTime, recorderError, audioUrl, startTimeRef, pausedTimeRef,
                 isPausedRef, mediaRecorderRef, nStarts, startPc, due, now, activeMs,
                 nWorkletFrames, delivered, recMounted>>
  /\ UNCHANGED <<linkVars, workletVars, panelVars>>

\* The body of stopRecording()
StopRecordingBody ==
  /\ recMounted
  /\ interval' = IF timerRef # 0 THEN ClearInterval(interval, timerRef) ELSE interval
  /\ timerRef' = 0
  /\ workletNodeRef' = 0
  /\ graph' = IF sourceNodeRef # 0
              THEN [graph EXCEPT ![sourceNodeRef] = "disconnected"] ELSE graph
  /\ sourceNodeRef' = 0
  /\ context' = IF audioContextRef # 0
                THEN [context EXCEPT ![audioContextRef] = "closed"] ELSE context
  /\ audioContextRef' = 0
  /\ recorder' = IF mediaRecorderRef # 0 /\ RecorderActive(mediaRecorderRef)
                 THEN [recorder EXCEPT ![mediaRecorderRef] = "stopping"]
                 ELSE recorder
  /\ stream' = IF mediaStreamRef # 0
               THEN [stream EXCEPT ![mediaStreamRef] = "stopped"] ELSE stream
  /\ mediaStreamRef' = 0
  /\ isRecording' = FALSE
  /\ isPaused' = FALSE
  /\ recOp' = <<"stopRecording", 0>>
  /\ UNCHANGED <<recordingTime, recorderError, audioUrl, startTimeRef, pausedTimeRef,
                 isPausedRef, mediaRecorderRef, nStarts, startPc, due, now, activeMs,
                 nWorkletFrames, delivered, recMounted>>

\* stopRecording()
StopRecording ==
  /\ StopRecordingBody
  /\ UNCHANGED <<linkVars, workletVars, panelVars>>

\* The teardown calls of stopRecording() that come before the tracks are stopped.
TeardownSteps ==
  {"workletNode.disconnect", "sourceNode.disconnect", "audioContext.close",
   "mediaRecorder.stop"}

\* The place of each of those calls among the statements of stopRecording().
StepOrder ==
  [x \in TeardownSteps |->
     CASE x = "workletNode.disconnect" -> 2
       [] x = "sourceNode.disconnect" -> 3
       [] x = "audioContext.close" -> 4
       [] x = "mediaRecorder.stop" -> 5]

StopRecordingRaisesMut(step) ==
  /\ recMounted
  /\ step \in StopCalls
  /\ workletNodeRef' = IF StepOrder[step] > 2 THEN 0 ELSE workletNodeRef
  /\ graph' = IF StepOrder[step] > 3 /\ sourceNodeRef # 0
              THEN [graph EXCEPT ![sourceNodeRef] = "disconnected"] ELSE graph
  /\ sourceNodeRef' = IF StepOrder[step] > 3 THEN 0 ELSE sourceNodeRef
  /\ context' = IF StepOrder[step] > 4 /\ audioContextRef # 0
                THEN [context EXCEPT ![audioContextRef] = "closed"] ELSE context
  /\ audioContextRef' = IF StepOrder[step] > 4 THEN 0 ELSE audioContextRef
  /\ recOp' = <<"stopRecording", StepOrder[step]>>
  /\ UNCHANGED <<interval, timerRef, recorder, stream, mediaStreamRef, isRecording,
                 isPaused>>
  /\ UNCHANGED <<recordingTime, recorderError, audioUrl, startTimeRef, pausedTimeRef,
                 isPausedRef, mediaRecorderRef, nStarts, startPc, due, now, activeMs,
                 nWorkletFrames, delivered, recMounted>>
  /\ UNCHANGED <<linkVars, workletVars, panelVars>>

\* stopRecording() when the call `step` raises: stopRecording() has no try, so the
\* statements before the call have run and the rest of the function has not.
StopRecordingRaises(step) ==
  /\ recMounted
  /\ step \in StopCalls
  /\ interval' = IF timerRef # 0 THEN ClearInterval(interval, timerRef) ELSE interval
  /\ timerRef' = 0
  /\ workletNodeRef' = IF StepOrder[step] > 2 THEN 0 ELSE workletNodeRef
  /\ graph' = IF StepOrder[step] > 3 /\ sourceNodeRef # 0
              THEN [graph EXCEPT ![sourceNodeRef] = "disconnected"] ELSE graph
  /\ sourceNodeRef' = IF StepOrder[step] > 3 THEN 0 ELSE sourceNodeRef
  /\ context' = IF StepOrder[step] > 4 /\ audioContextRef # 0
                THEN [context EXCEPT ![audioContextRef] = "closed"] ELSE context
  /\ audioContextRef' = IF StepOrder[step] > 4 THEN 0 ELSE audioContextRef
  /\ recOp' = <<"stopRecording", StepOrder[step]>>
  /\ UNCHANGED <<recorder, stream, mediaStreamRef, isRecording, isPaused>>
  /\ UNCHANGED <<recordingTime, recorderError, audioUrl, startTimeRef, pausedTimeRef,
                 isPausedRef, mediaRecorderRef, nStarts, startPc, due, now, activeMs,
                 nWorkletFrames, delivered, recMounted>>
  /\ UNCHANGED <<linkVars, workletVars, panelVars>>

CanPauseMut == isRecording

\* pauseRecording(): if (isRecording && !isPaused)
CanPause == isRecording /\ ~isPaused

\* pauseRecording()
PauseRecording ==
  /\ recMounted
  /\ IF CanPause
     THEN /\ isPausedRef' = TRUE
          /\ isPaused' = TRUE
          /\ pausedTimeRef' = now - startTimeRef - pausedTimeRef
          /\ recorder' = IF mediaRecorderRef # 0 /\ recorder[mediaRecorderRef] = "recording"
                         THEN [recorder EXCEPT ![mediaRecorderRef] = "paused"]
                         ELSE recorder
     ELSE UNCHANGED <<isPausedRef, isPaused, pausedTimeRef, recorder>>
  /\ recOp' = <<"pauseRecording", 0>>
  /\ UNCHANGED <<isRecording, recordingTime, recorderError, audioUrl, audioContextRef,
                 mediaStreamRef, workletNodeRef, sourceNodeRef, timerRef, startTimeRef,
                 mediaRecorderRef, nStarts, startPc, stream, context, graph, interval,
                 due, now, activeMs, nWorkletFrames, delivered, recMounted>>
  /\ UNCHANGED <<linkVars, workletVars, panelVars>>

\* resumeRecording()
ResumeRecording ==
  /\ recMounted
  /\ IF isRecording /\ isPaused
     THEN /\ isPausedRef' = FALSE
          /\ isPaused' = FALSE
          /\ startTimeRef' = now
          /\ recorder' = IF mediaRecorderRef # 0 /\ recorder[mediaRecorderRef] = "paused"
                         THEN [recorder EXCEPT ![mediaRecorderRef] = "recording"]
                         ELSE recorder
     ELSE UNCHANGED <<isPausedRef, isPaused, startTimeRef, recorder>>
  /\ recOp' = <<"resumeRecording", 0>>
  /\ UNCHANGED <<isRecording, recordingTime, recorderError, audioUrl, audioContextRef,
                 mediaStreamRef, workletNodeRef, sourceNodeRef, timerRef, pausedTimeRef,
                 mediaRecorderRef, nStarts, startPc, stream, context, graph, interval,
                 due, now, activeMs, nWorkletFrames, delivered, recMounted>>
  /\ UNCHANGED <<linkVars, workletVars, panelVars>>

\* Math.floor((Date.now() - startTimeRef.current - pausedTimeRef.current) / 1000)
Elapsed(t, startTime, pausedTime) == (t - startTime - pausedTime) \div 1000

\* The callback of the setInterval of startRecording() call k runs.
Tick(k) ==
  /\ interval[k] = "running"
  /\ now >= due[k]
  /\ due' = [due EXCEPT ![k] = @ + 1000]
  /\ recordingTime' = IF ~isPausedRef
                      THEN Elapsed(now, startTimeRef, pausedTimeRef)
                      ELSE recordingTime
  /\ recOp' = <<"tick", k>>
  /\ UNCHANGED <<isRecording, isPaused, recorderError, audioUrl, audioContextRef,
                 mediaStreamRef, workletNodeRef, sourceNodeRef, timerRef, startTimeRef,
                 pausedTimeRef, isPausedRef, mediaRecorderRef, nStarts, startPc, stream,
                 context, graph, recorder, interval, now, activeMs, nWorkletFrames,
                 delivered, recMounted>>
  /\ UNCHANGED <<linkVars, workletVars, panelVars>>

\* Wall time passes.
Advance ==
  /\ now + TimeStep <= MaxNow
  /\ now' = now + TimeStep
  /\ activeMs' = IF isRecording /\ ~isPaused THEN activeMs + TimeStep ELSE activeMs
  /\ recOp' = <<"advance", 0>>
  /\ UNCHANGED <<isRecording, isPaused, recordingTime, recorderError, audioUrl,
                 audioContextRef, mediaStreamRef, workletNodeRef, sourceNodeRef,
                 timerRef, startTimeRef, pausedTimeRef, isPausedRef, mediaRecorderRef,
                 nStarts, startPc, stream, context, graph, recorder, interval, due,
                 nWorkletFrames, delivered, recMounted>>
  /\ UNCHANGED <<linkVars, workletVars, panelVars>>

\* workletNode.port.onmessage of call k, on the next frame its worklet posts.  The
\* worklet is fed while its source is connected to it and its context runs.
WorkletMessage(k) ==
  /\ graph[k] = "connected"
  /\ context[k] = "running"
  /\ nWorkletFrames < MaxWorkletFrames
  /\ nWorkletFrames' = nWorkletFrames + 1
  /\ delivered' = IF ~isPausedRef THEN Append(delivered, nWorkletFrames + 1) ELSE delivered
  /\ recOp' = <<"workletMessage", k>>
  /\ UNCHANGED <<isRecording, isPaused, recordingTime, recorderError, audioUrl,
                 audioContextRef, mediaStreamRef, workletNodeRef, sourceNodeRef,
                 timerRef, startTimeRef, pausedTimeRef, isPausedRef, mediaRecorderRef,
                 nStarts, startPc, stream, context, graph, recorder, interval, due,
                 now, activeMs, recMounted>>
  /\ UNCHANGED <<linkVars, workletVars, panelVars>>

\* mediaRecorder.onstop of call k: the playback blob is finalized.
RecorderStopped(k) ==
  /\ recorder[k] = "stopping"
  /\ recorder' = [recorder EXCEPT ![k] = "inactive"]
  /\ audioUrl' = k
  /\ recOp' = <<"onstop", k>>
  /\ UNCHANGED <<isRecording, isPaused, recordingTime, recorderError, audioContextRef,
                 mediaStreamRef, workletNodeRef, sourceNodeRef, timerRef, startTimeRef,
                 pausedTimeRef, isPausedRef, mediaRecorderRef, nStarts, startPc, stream,
                 context, graph, interval, due, now, activeMs, nWorkletFrames,
                 delivered, recMounted>>
  /\ UNCHANGED <<linkVars, workletVars, panelVars>>

\* The body of clearRecording()
ClearRecordingBody ==
  /\ recMounted
  /\ audioUrl' = 0
  /\ recordingTime' = 0
  /\ recOp' = <<"clearRecording", 0>>
  /\ UNCHANGED <<isRecording, isPaused, recorderError, audioContextRef,
                 mediaStreamRef, workletNodeRef, sourceNodeRef, timerRef, startTimeRef,
                 pausedTimeRef, isPausedRef, mediaRecorderRef, nStarts, startPc, stream,
                 context, graph, recorder, interval, due, now, activeMs,
                 nWorkletFrames, delivered, recMounted>>

\* clearRecording()
ClearRecording ==
  /\ ClearRecordingBody
  /\ UNCHANGED <<linkVars, workletVars, panelVars>>

\* The cleanup of the recorder hook's effect, on unmount.
RecUnmount ==
  /\ recMounted
  /\ recMounted' = FALSE
  /\ interval' = IF timerRef # 0 THEN ClearInterval(interval, timerRef) ELSE interval
  /\ context' = IF audioContextRef # 0
                THEN [context EXCEPT ![audioContextRef] = "closed"] ELSE context
  /\ stream' = IF mediaStreamRef # 0
               THEN [stream EXCEPT ![mediaStreamRef] = "stopped"] ELSE stream
  /\ recOp' = <<"unmount", 0>>
  /\ UNCHANGED <<isRecording, isPaused, recordingTime, recorderError, audioUrl,
                 audioContextRef, mediaStreamRef, workletNodeRef, sourceNodeRef,
                 timerRef, startTimeRef, pausedTimeRef, isPausedRef, mediaRecorderRef,
                 nStarts, startPc, graph, recorder, due, now, activeMs, nWorkletFrames,
                 delivered>>
  /\ UNCHANGED <<linkVars, workletVars, panelVars>>

(***************************************************************************)
(* The recorder is explored in two specifications: the session and its     *)
(* resources with the clock standing still, and the elapsed-time           *)
(* bookkeeping with the clock running.                                      *)
(***************************************************************************)
RecorderNext ==
  \/ StartRecording
  \/ \E k \in Starts, outcome \in {"rejected", "contextRaises", "resolved"} :
       GetUserMediaSettled(k, outcome)
  \/ \E k \in Starts,
        outcome \in {"rejected", "nodeRaises", "recorderRaises", "recorderStartRaises", "resolved"} :
       AddModuleSettled(k, outcome)
  \/ StopRecording
  \/ \E step \in TeardownSteps : StopRecordingRaises(step)
  \/ PauseRecording
  \/ ResumeRecording
  \/ \E k \in Starts : WorkletMessage(k)
  \/ \E k \in Starts : RecorderStopped(k)
  \/ ClearRecording
  \/ RecUnmount

\* The elapsed-time bookkeeping, over at most TimerStarts startRecording() calls.
TimerNext ==
  \/ StartRecording /\ nStarts' <= TimerStarts
  \/ \E k \in Starts, outcome \in {"rejected", "contextRaises", "resolved"} :
       GetUserMediaSettled(k, outcome)
  \/ \E k \in Starts,
        outcome \in {"rejected", "nodeRaises", "recorderRaises", "recorderStartRaises", "resolved"} :
       AddModuleSettled(k, outcome)
  \/ StopRecording
  \/ PauseRecording
  \/ ResumeRecording
  \/ \E k \in Starts : Tick(k)
  \/ Advance

\* The session's life cycle: the calls that start, pause, resume and stop it, with
\* every outcome of the start, and the unmount.
LifecycleNext ==
  \/ StartRecording
  \/ \E k \in Starts, outcome \in {"rejected", "contextRaises", "resolved"} :
       GetUserMediaSettled(k, outcome)
  \/ \E k \in Starts,
        outcome \in {"rejected", "nodeRaises", "recorderRaises", "recorderStartRaises", "resolved"} :
       AddModuleSettled(k, outcome)
  \/ StopRecording
  \/ PauseRecording
  \/ ResumeRecording
  \/ RecUnmount

(***************************************************************************)
(* TranscriptionPanel: the component that uses both hooks.  It gives the   *)
(* recorder handleAudioData as onAudioData, which hands each frame to the  *)
(* link's sendAudio.                                                       *)
(***************************************************************************)
FrameForwardedMut == ~isPausedRef /\ wsRef # 0

\* A posted frame reaches ws.send: port.onmessage passes it on unless paused,
\* handleAudioData passes it on if isDeepgramReady(), sendAudio sends it if allowed.
FrameForwarded == ~isPausedRef /\ IsReady /\ SendAllowed

\* workletNode.port.onmessage of call k with onAudioData = handleAudioData, on the
\* next frame the worklet posts.
WorkletFrame(k) ==
  /\ graph[k] = "connected"
  /\ context[k] = "running"
  /\ nWorkletFrames < MaxWorkletFrames
  /\ nWorkletFrames' = nWorkletFrames + 1
  /\ delivered' = IF ~isPausedRef THEN Append(delivered, nWorkletFrames + 1) ELSE delivered
  /\ nFrames' = IF ~isPausedRef /\ IsReady THEN nFrames + 1 ELSE nFrames
  /\ sent' = IF FrameForwarded THEN WsSend(sent, <<wsRef, nWorkletFrames + 1>>) ELSE sent
  /\ recOp' = <<"workletFrame", k>>
  /\ UNCHANGED <<isRecording, isPaused, recordingTime, recorderError, audioUrl,
                 audioContextRef, mediaStreamRef, workletNodeRef, sourceNodeRef,
                 timerRef, startTimeRef, pausedTimeRef, isPausedRef, mediaRecorderRef,
                 nStarts, startPc, stream, context, graph, recorder, interval, due,
                 now, activeMs, recMounted>>
  /\ UNCHANGED <<isConnected, isConnecting, transcript, interimTranscript, error,
                 wsRef, isConnectedRef, nSockets, readyState, mustFail, resolved,
                 result, connectionTimeout, gotConnected, pendingBlobs, mounted, lastOp>>
  /\ UNCHANGED <<workletVars, panelVars>>

\* The panel's clearRecording(): clearTranscript(); disconnectDeepgram();
\* originalClearRecording()
PanelClearRecordingBody ==
  /\ mounted
  /\ transcript' = <<>>
  /\ DisconnectBody
  /\ ClearRecordingBody

\* The files a user may choose, by size in bytes, MIME type and extension.
maxSize == 25 * 1024 * 1024
FileSizes == {1, maxSize - 1, maxSize, maxSize + 1, 26 * 1024 * 1024}
FileTypes == {"audio/mpeg", "text/plain"}
FileExts == {"mp3", "txt"}
Files == [size : FileSizes, type : FileTypes, ext : FileExts]
MaxRequests == 2

validTypes ==
  {"audio/mpeg", "audio/mp3", "audio/wav", "audio/m4a", "audio/ogg", "audio/flac",
   "audio/webm"}

\* validTypes.includes(file.type) || file.name.match(/\.(mp3|wav|m4a|ogg|flac|webm)$/i)
ValidType(file) ==
  file.type \in validTypes \/ file.ext \in {"mp3", "wav", "m4a", "ogg", "flac", "webm"}

TooLargeMut(file) == file.size >= maxSize

\* file.size > maxSize
TooLarge(file) == file.size > maxSize

\* new File([audioBlob], 'recording.webm', { type: audioBlob.type }); the size of a
\* recording is not modelled
RecordingFile == [size |-> 0, type |-> "audio/webm", ext |-> "webm"]

\* handleFileUpload(event), event.target.files[0] being `file` (NoFile: no file)
HandleFileUpload(file) ==
  /\ panelOp' = <<"handleFileUpload", file>>
  /\ IF file = NoFile
     THEN UNCHANGED <<panelError, uploadedFile, uploadedAudioUrl, linkVars, recVars>>
     ELSE IF ~ValidType(file)
     THEN /\ panelError' = "invalidFileType"
          /\ UNCHANGED <<uploadedFile, uploadedAudioUrl, linkVars, recVars>>
     ELSE IF TooLarge(file)
     THEN /\ panelError' = "fileTooLarge"
          /\ UNCHANGED <<uploadedFile, uploadedAudioUrl, linkVars, recVars>>
     ELSE /\ panelError' = "null"
          /\ uploadedFile' = file
          /\ uploadedAudioUrl' = TRUE
          /\ IF audioUrl # 0
             THEN PanelClearRecordingBody
             ELSE UNCHANGED <<linkVars, recVars>>
  /\ UNCHANGED <<isTranscribing, isRunningWorkflow, requests, transcribePc, panelPc>>
  /\ UNCHANGED workletVars

\* clearUploadedFile()
ClearUploadedFile ==
  /\ uploadedFile' = NoFile
  /\ uploadedAudioUrl' = FALSE
  /\ transcript' = <<>>
  /\ DisconnectBody
  /\ panelOp' = <<"clearUploadedFile", NoFile>>
  /\ UNCHANGED <<panelError, isTranscribing, isRunningWorkflow, requests,
                 transcribePc, panelPc>>
  /\ UNCHANGED <<recVars, workletVars>>

\* handleTranscribe(), up to `await transcribeAudio(fileToTranscribe)`.  One call
\* at a time, and at most MaxRequests requests in all.
HandleTranscribe ==
  /\ transcribePc[1] = "idle"
  /\ Len(requests) + 2 <= MaxRequests
  /\ panelOp' = <<"handleTranscribe", NoFile>>
  /\ IF uploadedFile = NoFile /\ audioUrl = 0
     THEN UNCHANGED <<isTranscribing, panelError, requests, transcribePc>>
     ELSE /\ isTranscribing' = TRUE
          /\ panelError' = "null"
          /\ requests' = Append(requests,
                           [kind |-> "transcribeAudio",
                            file |-> IF uploadedFile # NoFile THEN uploadedFile
                                     ELSE RecordingFile])
          /\ transcribePc' = <<"transcribeAudio", uploadedFile # NoFile>>
  /\ UNCHANGED <<uploadedFile, uploadedAudioUrl, isRunningWorkflow, panelPc>>
  /\ UNCHANGED <<linkVars, recVars, workletVars>>

\* handleTranscribe() resumes after transcribeAudio and runs up to
\* `await runFullWorkflow(transcription.id)`, or to its end if the request failed.
TranscribeSettled(ok) ==
  /\ transcribePc[1] = "transcribeAudio"
  /\ panelOp' = <<"transcribeAudio", NoFile>>
  /\ IF ok
     THEN /\ IF transcribePc[2]
             THEN /\ uploadedFile' = NoFile
                  /\ uploadedAudioUrl' = FALSE
                  /\ transcript' = <<>>
                  /\ interimTranscript' = <<>>
                  /\ lastOp' = <<"clearTranscript", 0>>
                  /\ UNCHANGED <<isConnected, isConnecting, error, wsRef, isConnectedRef,
                                 nSockets, readyState, mustFail, resolved, result,
                                 connectionTimeout, gotConnected, sent, pendingBlobs,
                                 nFrames, mounted>>
                  /\ UNCHANGED recVars
             ELSE /\ PanelClearRecordingBody
                  /\ UNCHANGED <<uploadedFile, uploadedAudioUrl>>
          /\ isRunningWorkflow' = TRUE
          /\ requests' = Append(requests, [kind |-> "runFullWorkflow", file |-> NoFile])
          /\ transcribePc' = <<"runFullWorkflow", transcribePc[2]>>
          /\ UNCHANGED <<panelError, isTranscribing>>
     ELSE /\ panelError' = "transcriptionError"
          /\ isTranscribing' = FALSE
          /\ transcribePc' = <<"idle", FALSE>>
          /\ UNCHANGED <<uploadedFile, uploadedAudioUrl, isRunningWorkflow, requests>>
          /\ UNCHANGED <<linkVars, recVars>>
  /\ UNCHANGED panelPc
  /\ UNCHANGED workletVars

\* handleTranscribe() resumes after runFullWorkflow and runs to its end.
WorkflowSettled(ok) ==
  /\ transcribePc[1] = "runFullWorkflow"
  /\ panelOp' = <<"runFullWorkflow", NoFile>>
  /\ panelError' = IF ok THEN panelError ELSE "workflowError"
  /\ isRunningWorkflow' = FALSE
  /\ isTranscribing' = FALSE
  /\ transcribePc' = <<"idle", FALSE>>
  /\ UNCHANGED <<uploadedFile, uploadedAudioUrl, requests, panelPc>>
  /\ UNCHANGED <<linkVars, recVars, workletVars>>

\* Uploading and transcribing a file, in a panel that holds no recording.
UploadNext ==
  \/ \E file \in Files \cup {NoFile} : HandleFileUpload(file)
  \/ ClearUploadedFile
  \/ HandleTranscribe
  \/ \E ok \in BOOLEAN : TranscribeSettled(ok)
  \/ \E ok \in BOOLEAN : WorkflowSettled(ok)

\* Recording sessions whose startRecording() succeeds, together with the link's
\* connections, over at most SessionCalls calls of connect() and startRecording().
SessionNext ==
  \/ Connect(FALSE) /\ nSockets' + nStarts <= SessionCalls
  \/ \E s \in Sockets : TransportOpen(s)
  \/ \E s \in Sockets, m \in {x \in ControlMessages : x.type = "connected"} : OnMessage(s, m)
  \/ \E s \in Sockets, code \in {1000, 1006}, withError \in BOOLEAN : SocketClosed(s, code, withError)
  \/ Disconnect
  \/ StartRecording /\ nSockets + nStarts' <= SessionCalls
  \/ \E k \in Starts : GetUserMediaSettled(k, "resolved")
  \/ \E k \in Starts : AddModuleSettled(k, "resolved")
  \/ StopRecording
  \/ PauseRecording
  \/ ResumeRecording
  \/ \E k \in Starts : WorkletFrame(k)

\* The panel's startRecording(), up to `await connectDeepgram()`: clearTranscript(),
\* setError(null), connect().  The call waits for the promise of the socket it
\* made, or holds the value connect() returned at once.  One call at a time.
PanelStartRecording(throws) ==
  /\ panelPc = <<"idle", 0>>
  /\ transcript' = <<>>
  /\ interimTranscript' = <<>>
  /\ panelError' = "null"
  /\ ConnectBody(throws)
  /\ panelPc' = IF ConnectAlreadyOpen THEN <<"connected", 1>>
                ELSE IF throws THEN <<"connected", 0>>
                ELSE <<"await", nSockets + 1>>
  /\ panelOp' = <<"startRecording", NoFile>>
  /\ UNCHANGED <<uploadedFile, uploadedAudioUrl, isTranscribing, isRunningWorkflow,
                 requests, transcribePc>>
  /\ UNCHANGED <<recVars, workletVars>>

\* The value the awaited connect() gave the panel's startRecording().
Connected ==
  IF panelPc[1] = "connected" THEN panelPc[2] = 1 ELSE result[panelPc[2]] = "true"

\* The panel's startRecording() resumes after connect(): if (!connected) it sets the
\* error and returns, else it calls the recorder's startRecording(), which handles
\* its own failures and raises nothing.
PanelConnectSettled ==
  /\ panelPc[1] \in {"connected", "await"}
  /\ panelPc[1] = "await" => result[panelPc[2]] # "pending"
  /\ IF Connected
     THEN /\ StartRecordingBody
          /\ UNCHANGED panelError
     ELSE /\ panelError' = "deepgramConnectionError"
          /\ UNCHANGED recVars
  /\ panelPc' = <<"idle", 0>>
  /\ panelOp' = <<"connectDeepgram", NoFile>>
  /\ UNCHANGED <<uploadedFile, uploadedAudioUrl, isTranscribing, isRunningWorkflow,
                 requests, transcribePc>>
  /\ UNCHANGED <<linkVars, workletVars>>

\* The panel's stopRecording(): originalStopRecording(); disconnectDeepgram()
PanelStopRecording ==
  /\ StopRecordingBody
  /\ DisconnectBody
  /\ UNCHANGED transcript
  /\ panelOp' = <<"stopRecording", NoFile>>
  /\ UNCHANGED <<panelError, uploadedFile, uploadedAudioUrl, isTranscribing,
                 isRunningWorkflow, requests, transcribePc, panelPc>>
  /\ UNCHANGED workletVars

\* The panel's clearRecording()
PanelClearRecording ==
  /\ PanelClearRecordingBody
  /\ panelOp' = <<"clearRecording", NoFile>>
  /\ UNCHANGED <<panelError, uploadedFile, uploadedAudioUrl, isTranscribing,
                 isRunningWorkflow, requests, transcribePc, panelPc>>
  /\ UNCHANGED workletVars

\* A recording made through the panel: its startRecording() and stopRecording(),
\* the events of a socket the server accepts, and every outcome of the recorder's
\* start, over at most SessionCalls calls of connect() and startRecording().
PanelNext ==
  \/ \E throws \in BOOLEAN : PanelStartRecording(throws) /\ nSockets' + nStarts <= SessionCalls
  \/ PanelConnectSettled /\ nSockets + nStarts' <= SessionCalls
  \/ \E s \in Sockets : TransportOpen(s)
  \/ \E s \in Sockets, m \in {x \in ControlMessages : x.type = "connected"} : OnMessage(s, m)
  \/ \E s \in Sockets, code \in {1000, 1006}, withError \in BOOLEAN : SocketClosed(s, code, withError)
  \/ \E k \in Starts, outcome \in {"rejected", "contextRaises", "resolved"} :
       GetUserMediaSettled(k, outcome)
  \/ \E k \in Starts,
        outcome \in {"rejected", "nodeRaises", "recorderRaises", "recorderStartRaises", "resolved"} :
       AddModuleSettled(k, outcome)
  \/ PauseRecording
  \/ ResumeRecording
  \/ PanelStopRecording
  \/ PanelClearRecording
  \/ \E k \in Starts : RecorderStopped(k)

\* Frames and transcript events.  A frame changes only what was written to the
\* socket and a transcript event only the two transcripts, so the recorder is
\* explored while no transcript event has arrived, and transcript events while the
\* recorder is at rest, over at most TranscriptSockets connections and SessionCalls
\* calls of connect() and startRecording().
NoTranscriptYet == transcript = <<>> /\ interimTranscript = <<>>

RecorderAtRest == recOp = <<"init", 0>>

OrderNext ==
  \/ /\ Connect(FALSE)
     /\ nSockets' <= TranscriptSockets
     /\ nSockets' + nStarts <= SessionCalls
  \/ \E s \in Sockets : TransportOpen(s)
  \/ \E s \in Sockets, m \in {x \in ControlMessages : x.type = "connected"} : OnMessage(s, m)
  \/ \E s \in Sockets, m \in TranscriptMessages : RecorderAtRest /\ OnMessage(s, m)
  \/ \E s \in Sockets, code \in {1000, 1006}, withError \in BOOLEAN : SocketClosed(s, code, withError)
  \/ Disconnect
  \/ NoTranscriptYet /\ StartRecording /\ nSockets + nStarts' <= SessionCalls
  \/ \E k \in Starts : NoTranscriptYet /\ GetUserMediaSettled(k, "resolved")
  \/ \E k \in Starts : NoTranscriptYet /\ AddModuleSettled(k, "resolved")
  \/ NoTranscriptYet /\ StopRecording
  \/ NoTranscriptYet /\ PauseRecording
  \/ NoTranscriptYet /\ ResumeRecording
  \/ \E k \in Starts : NoTranscriptYet /\ WorkletFrame(k)

\* The two hooks share no state: every step of one leaves the other's variables as
\* they are.  Here each hook is explored over all of its operations while the other
\* is at rest.
HooksNext ==
  \/ /\ recOp = <<"init", 0>>
     /\ Next
  \/ /\ lastOp = <<"init", 0>>
     /\ RecorderNext
     /\ nStarts' <= TimerStarts

WorkletSpecInit == LinkInit /\ RecInit /\ WorkletInit /\ PanelInit

Spec == Init /\ [][Next]_vars
TranscriptSpec == Init /\ [][TranscriptNext]_vars
AudioSpec == Init /\ [][AudioNext]_vars
RecorderSpec == Init /\ [][RecorderNext]_vars
TimerSpec == Init /\ [][TimerNext]_vars
WorkletSpec == WorkletSpecInit /\ [][WorkletNext]_vars
SessionSpec == Init /\ [][SessionNext]_vars
HooksSpec == Init /\ [][HooksNext]_vars
LifecycleSpec == Init /\ [][LifecycleNext]_vars
UploadSpec == Init /\ [][UploadNext]_vars
OrderSpec == Init /\ [][OrderNext]_vars
PanelSpec == Init /\ [][PanelNext]_vars

\* The recorder with the events the browser is bound to dispatch: a pending
\* getUserMedia() or addModule() promise settles, and a stopped MediaRecorder fires
\* its stop event.  Calls of the hook's functions are up to the caller.
RecorderFairness ==
  /\ \A k \in Starts :
       WF_vars(\E outcome \in {"rejected", "contextRaises", "resolved"} :
                 GetUserMediaSettled(k, outcome))
  /\ \A k \in Starts :
       WF_vars(\E outcome \in {"rejected", "nodeRaises", "recorderRaises",
                               "recorderStartRaises", "resolved"} :
                 AddModuleSettled(k, outcome))
  /\ \A k \in Starts : WF_vars(RecorderStopped(k))

RecorderFairSpec == RecorderSpec /\ RecorderFairness

(***************************************************************************)
(* Properties.                                                             *)
(***************************************************************************)

\* The link is Open: the current socket is open at transport level and a
\* `connected` message has been received on it.
LinkOpen == wsRef # 0 /\ readyState[wsRef] = "OPEN" /\ gotConnected[wsRef]

\* u is t without its leading and trailing whitespace.
IsTrimOf(u, t) ==
  /\ u = <<>> \/ (u[1] \notin Whitespace /\ u[Len(u)] \notin Whitespace)
  /\ \E i \in 1..(Len(t) + 1) :
       /\ i + Len(u) - 1 <= Len(t)
       /\ u = SubSeq(t, i, i + Len(u) - 1)
       /\ \A k \in 1..Len(t) : (k < i \/ k > i + Len(u) - 1) => t[k] \in Whitespace

\* The step delivers a final transcript event.
FinalEvent ==
  /\ lastOp'[1] = "message"
  /\ lastOp'[2].type = "transcript"
  /\ lastOp'[2].is_final

\* A final transcript event has just been delivered.
AfterFinalEvent ==
  /\ lastOp[1] = "message"
  /\ lastOp[2].type = "transcript"
  /\ lastOp[2].is_final

\* C1, as claimed: every step of the hook, clearTranscript() included, leaves the
\* committed transcript before the step a prefix of the committed transcript after it.
C1_CommittedNeverShortened == [][IsPrefix(transcript, transcript')]_vars

\* C1, amended: every step other than clearTranscript() leaves the committed
\* transcript before the step a prefix of the committed transcript after it, and
\* clearTranscript() resets it to the empty string.
C1_CommittedExtendedOrCleared ==
  [][IF lastOp'[1] = "clearTranscript"
     THEN transcript' = <<>>
     ELSE IsPrefix(transcript, transcript')]_vars

\* A final event has extended a committed transcript that was not empty.
C1_Witness ==
  /\ AfterFinalEvent
  /\ NewText(lastOp[2].text) # <<>>
  /\ Len(transcript) > Len(NewText(lastOp[2].text))

\* C2, as claimed: every value the tick reports while not paused is the time spent
\* recording and not paused since the start, in whole seconds; it is never negative
\* and never less than the value reported before.
C2_TickReportsActiveTime ==
  [][(recOp'[1] = "tick" /\ ~isPausedRef) =>
       /\ recordingTime' = activeMs \div 1000
       /\ recordingTime' >= 0
       /\ recordingTime' >= recordingTime]_vars

\* C3, as claimed: while isPaused is true no frame a worklet posts is passed to
\* onAudioData, and pauseRecording() leaves the capture graph connected and running.
C3_NoFrameWhilePaused ==
  [][/\ (isPaused /\ recOp'[1] = "workletMessage") => delivered' = delivered
     /\ recOp'[1] = "pauseRecording" => (graph' = graph /\ context' = context)]_vars

\* C4: a frame enters `sent` (or waits as a Blob for its bytes) only in a
\* sendAudio() call made while the link is Open, and on the current socket; a
\* sendAudio() call made in any other state changes neither, so the frame of that
\* call is never written later.
C4_FrameSentOnlyWhenOpen ==
  [][LET old == {sent[i] : i \in 1..Len(sent)}
         new == {sent'[i] : i \in 1..Len(sent')}
         frames == {p \in new \ old : p[2] # StopMsg}
     IN  /\ \A p \in frames \cup (pendingBlobs' \ pendingBlobs) :
              \/ p \in pendingBlobs
              \/ LinkOpen /\ nFrames' = nFrames + 1 /\ p = <<wsRef, nFrames + 1>>
         /\ (nFrames' = nFrames + 1 /\ ~LinkOpen) =>
              (sent' = sent /\ pendingBlobs' = pendingBlobs)]_vars

\* sendAudio() has just been called on a socket that is open at transport level
\* but has not received `connected`, and the frame was dropped.
C4_Witness ==
  /\ lastOp = <<"sendAudio", 1>>
  /\ wsRef # 0
  /\ readyState[wsRef] = "OPEN"
  /\ ~LinkOpen
  /\ sent = <<>>
  /\ pendingBlobs = {}

\* C5: the worklet has posted floor(captured / 4096) frames, frame j holds the
\* quantized samples 4096 (j - 1) + 1 .. 4096 j of the capture in order, and the
\* other captured mod 4096 samples are in the accumulation buffer.
C5_FramesOfExactly4096 ==
  /\ Len(posted) = captured \div 4096
  /\ \A j \in 1..Len(posted) :
       /\ Len(posted[j]) = 4096
       /\ \A i \in 1..4096 : posted[j][i] = Quantize(Signal(4096 * (j - 1) + i))
  /\ bufferIndex = captured % 4096
  /\ \A i \in 1..bufferIndex : buffer[i] = Signal(captured - bufferIndex + i)

\* One process() call has filled two frames and left a remainder in the buffer.
C5_Witness == captured = 9000 /\ Len(posted) = 2 /\ bufferIndex = 808

\* C6: a connect() call made while the link is Open creates no socket, leaves every
\* socket and wsRef as they are, and returns true.
C6_ConnectWhileOpenIsNoop ==
  [][(LinkOpen /\ lastOp'[1] = "connect") =>
       /\ nSockets' = nSockets
       /\ readyState' = readyState
       /\ wsRef' = wsRef
       /\ lastOp'[2] = "true"]_vars

\* connect() has just returned true on a link that was already Open.
C6_Witness == lastOp = <<"connect", "true">> /\ LinkOpen

\* C7: a connect() call that made a socket has resolved true only if `connected`
\* was delivered on that socket, and isConnected or isReady() hold only if
\* `connected` was delivered on the current socket.
C7_TrueOnlyAfterConnected ==
  /\ \A s \in Sockets : result[s] = "true" => gotConnected[s]
  /\ isConnected => (wsRef # 0 /\ gotConnected[wsRef])
  /\ IsReady => gotConnected[wsRef]

\* A connect() call has resolved true and the link is reported Open.
C7_Witness == \E s \in Sockets : result[s] = "true" /\ wsRef = s /\ isConnected /\ IsReady

\* C8, as claimed: when the 15 s timer of a connect() call fires before the call
\* resolved, the call resolves false, its socket is closing or closed, and the link
\* is not Open afterwards.
C8_TimeoutLeavesLinkNotOpen ==
  [][\A s \in Sockets :
       (lastOp' = <<"timeout", s>> /\ ~resolved[s]) =>
         /\ result'[s] = "false"
         /\ readyState'[s] \in {"CLOSING", "CLOSED"}
         /\ ~(wsRef' # 0 /\ readyState'[wsRef'] = "OPEN" /\ isConnectedRef')]_vars

\* The timeout of a connect() call whose socket has not been replaced by a later
\* call does leave the call resolved false, its socket closing or closed, and the
\* link not Open.
TimeoutOfCurrentSocket ==
  [][\A s \in Sockets :
       (lastOp' = <<"timeout", s>> /\ ~resolved[s] /\ wsRef \in {0, s}) =>
         /\ result'[s] = "false"
         /\ readyState'[s] \in {"CLOSING", "CLOSED"}
         /\ ~(wsRef' # 0 /\ readyState'[wsRef'] = "OPEN" /\ isConnectedRef')]_vars

\* C9: a final transcript event whose trimmed text t is not empty makes committed
\* t if committed was empty and committed, a space, t otherwise, and empties interim.
C9_FinalAppendsTrimmedText ==
  [][\A t \in Texts, u \in Texts \cup {<<"a">>, <<"a", " ", "b">>} :
       (FinalEvent /\ lastOp'[2].text = t /\ IsTrimOf(u, t) /\ u # <<>>) =>
         /\ transcript' = IF transcript = <<>> THEN u ELSE transcript \o <<" ">> \o u
         /\ interimTranscript' = <<>>]_vars

\* A final event with text " a b " has been appended to a committed "a".
C9_Witness ==
  /\ AfterFinalEvent
  /\ lastOp[2].text = <<" ", "a", " ", "b", " ">>
  /\ transcript = <<"a", " ", "a", " ", "b">>
  /\ interimTranscript = <<>>

\* C10: a final transcript event whose text is missing, empty or only whitespace
\* leaves committed as it was.
C10_EmptyFinalKeepsCommitted ==
  [][(/\ FinalEvent
      /\ \/ lastOp'[2].text = Missing
         \/ \A i \in 1..Len(lastOp'[2].text) : lastOp'[2].text[i] \in Whitespace) =>
       transcript' = transcript]_vars

\* A final event with whitespace-only text has been delivered on a committed
\* transcript that is not empty.
C10_Witness ==
  /\ AfterFinalEvent
  /\ lastOp[2].text = <<" ">>
  /\ transcript # <<>>

\* The step delivers message m with the given type.
MessageEvent(type) == lastOp'[1] = "message" /\ lastOp'[2].type = type

\* The connection state of the hook and the results of the connect() calls.
connVars == <<isConnected, isConnecting, wsRef, isConnectedRef, nSockets, readyState,
              resolved, result, connectionTimeout>>

\* C11, as claimed: a final transcript event with empty text changes nothing:
\* committed, interim, the connection state and error are as before.
C11_EmptyFinalChangesNothing ==
  [][(FinalEvent /\ lastOp'[2].text = <<>>) =>
       /\ transcript' = transcript
       /\ interimTranscript' = interimTranscript
       /\ connVars' = connVars
       /\ error' = error]_vars

\* C11, amended: a final transcript event with empty text leaves committed, the
\* connection state and error as before, and empties interim.
C11_EmptyFinalOnlyClearsInterim ==
  [][(FinalEvent /\ lastOp'[2].text = <<>>) =>
       /\ transcript' = transcript
       /\ interimTranscript' = <<>>
       /\ connVars' = connVars
       /\ error' = error]_vars

\* A final event with empty text has been delivered on a connected link whose
\* committed transcript is not empty.
C11_Witness ==
  /\ AfterFinalEvent
  /\ lastOp[2].text = <<>>
  /\ transcript # <<>>
  /\ interimTranscript = <<>>
  /\ LinkOpen

\* C12: an interim transcript event with non-empty text x makes interim x, whatever
\* interim was, and leaves committed as it was.
C12_InterimReplaced ==
  [][(/\ MessageEvent("transcript")
      /\ ~lastOp'[2].is_final
      /\ lastOp'[2].text \notin {Missing, <<>>}) =>
       /\ interimTranscript' = lastOp'[2].text
       /\ transcript' = transcript]_vars

\* An interim event with text " a b " has been delivered over a committed "a".
C12_Witness ==
  /\ lastOp[1] = "message"
  /\ lastOp[2].type = "transcript"
  /\ ~lastOp[2].is_final
  /\ lastOp[2].text = <<" ", "a", " ", "b", " ">>
  /\ interimTranscript = <<" ", "a", " ", "b", " ">>
  /\ transcript = <<"a">>

\* C13: an `error` message received while the link is Open leaves committed,
\* interim, every socket, the connection state and the connect() results as they
\* were, so the link stays Open; it sets the error notification.
C13_ErrorMessageKeepsLinkOpen ==
  [][(LinkOpen /\ MessageEvent("error")) =>
       /\ transcript' = transcript
       /\ interimTranscript' = interimTranscript
       /\ connVars' = connVars
       /\ LinkOpen'
       /\ error' = "server"]_vars

\* An `error` message has been delivered on an Open link.
C13_Witness ==
  /\ lastOp[1] = "message"
  /\ lastOp[2].type = "error"
  /\ LinkOpen
  /\ isConnected
  /\ error = "server"

\* C14: a message that does not parse, or whose type is unknown or missing, leaves
\* committed, interim, the connection state, error and the connect() results as
\* they were; the socket stays open with its handler, so later messages are handled.
C14_MalformedMessageIgnored ==
  [][(lastOp'[1] = "message" /\ lastOp'[2].type \in {"malformed", "unknown"}) =>
       /\ transcript' = transcript
       /\ interimTranscript' = interimTranscript
       /\ connVars' = connVars
       /\ error' = error]_vars

\* A malformed message has been delivered while the connect() call was pending, and
\* the call is still pending with its timer armed.
C14_Witness ==
  /\ lastOp[1] = "message"
  /\ lastOp[2].type = "malformed"
  /\ wsRef # 0
  /\ readyState[wsRef] = "OPEN"
  /\ result[wsRef] = "pending"
  /\ connectionTimeout[wsRef] = "armed"

\* C15: disconnect(), from any state, leaves no current socket, isConnected false,
\* isReady() false and interim empty, and leaves committed as it was.
C15_DisconnectClosesLink ==
  [][lastOp'[1] = "disconnect" =>
       /\ wsRef' = 0
       /\ ~isConnected'
       /\ ~isConnectedRef'
       /\ interimTranscript' = <<>>
       /\ transcript' = transcript]_vars

\* disconnect() has been called on an Open link with a committed transcript.
C15_Witness ==
  /\ lastOp = <<"disconnect", 0>>
  /\ wsRef = 0
  /\ transcript # <<>>
  /\ \E i \in 1..Len(sent) : sent[i][2] = StopMsg

\* C16: a socket is constructed only in a connect() step, and when the current socket
\* of an Open link closes with a code other than 1000 the link is reported not Open
\* and no socket is constructed.
C16_NoImplicitReconnect ==
  [][/\ nSockets' # nSockets => lastOp'[1] = "connect"
     /\ (LinkOpen /\ lastOp'[1] = "close" /\ lastOp'[2] # 1000 /\ readyState'[wsRef] = "CLOSED") =>
          /\ ~isConnected'
          /\ wsRef' = 0
          /\ nSockets' = nSockets]_vars

\* The only socket was connected and has closed with code 1006 without the caller
\* having closed it; no second socket exists.
C16_Witness ==
  /\ lastOp = <<"close", 1006>>
  /\ mounted
  /\ sent = <<>>
  /\ nSockets = 1
  /\ gotConnected[1]
  /\ readyState[1] = "CLOSED"
  /\ ~isConnected

\* C17: a socket's close with a code other than 1000 changes nothing of the
\* recording session; a microphone stream stops being live and a capture graph
\* stops being connected only in a stopRecording() call; and a frame posted while
\* the link is not Open is not written to any socket.
C17_CloseLeavesSessionRunning ==
  [][/\ (/\ lastOp'[1] = "close"
         /\ lastOp'[2] # 1000
         /\ \E s \in Sockets : readyState[s] # "CLOSED" /\ readyState'[s] = "CLOSED") =>
          recVars' = recVars
     /\ \A k \in Starts :
          \/ (stream[k] = "live" /\ stream'[k] # "live")
          \/ (graph[k] = "connected" /\ graph'[k] # "connected")
          => recOp' = <<"stopRecording", 0>>
     /\ (recOp'[1] = "workletFrame" /\ nWorkletFrames' # nWorkletFrames /\ ~LinkOpen) =>
          sent' = sent /\ pendingBlobs' = pendingBlobs]_vars

\* The session is recording after its only socket closed with code 1006: the first
\* frame was written while the link was Open, the second was passed to
\* onAudioData after the close and dropped, and the stream and graph are held.
C17_Witness ==
  /\ lastOp = <<"close", 1006>>
  /\ recOp = <<"workletFrame", 1>>
  /\ isRecording
  /\ stream[1] = "live"
  /\ graph[1] = "connected"
  /\ mediaStreamRef = 1
  /\ nSockets = 1
  /\ readyState[1] = "CLOSED"
  /\ delivered = <<1, 2>>
  /\ sent = << <<1, 1>> >>

\* C18: right after a stopRecording() call that returned, a further call would make
\* no call on any resource, the stream the session held is stopped, and a
\* stopRecording() step taken then changes nothing; right after disconnect(), a
\* further call would make no call on a socket, there is no current socket, and a
\* disconnect() step taken then changes nothing.
C18_StopAndDisconnectIdempotent ==
  [][/\ recOp' = <<"stopRecording", 0>> =>
          /\ StopCalls' = {}
          /\ mediaStreamRef' = 0
          /\ mediaStreamRef # 0 => stream'[mediaStreamRef] = "stopped"
          /\ ~isRecording'
     /\ (recOp = <<"stopRecording", 0>> /\ recOp' = recOp) => recVars' = recVars
     /\ lastOp' = <<"disconnect", 0>> =>
          /\ DisconnectCalls' = {}
          /\ wsRef' = 0
          /\ ~isConnected'
     /\ (lastOp = <<"disconnect", 0>> /\ lastOp' = lastOp) => linkVars' = linkVars]_vars

\* stopRecording() has been called on a running session: its stream is stopped, its
\* context closed, its recorder stopped, and no reference is left.
C18_Witness ==
  /\ recOp = <<"stopRecording", 0>>
  /\ stream[1] = "stopped"
  /\ context[1] = "closed"
  /\ recorder[1] = "stopping"
  /\ StopCalls = {}

\* C19, as claimed: when stopRecording() is called while a microphone stream is held,
\* that stream is stopped by the end of the call, whether or not a teardown call
\* before it raised.
C19_TracksStoppedDespiteRaise ==
  [][(recOp'[1] = "stopRecording" /\ mediaStreamRef # 0) =>
       stream'[mediaStreamRef] = "stopped"]_vars

\* C20, as claimed: once a startRecording() call has failed, the stream it acquired
\* is not live, its audio context is not running, its capture graph does not exist,
\* its timer does not run, no reference to them is left, and, with no other
\* session started, the session is not Recording.
C20_FailedStartLeavesNothing ==
  [][\A k \in Starts :
       (startPc[k] # "failed" /\ startPc'[k] = "failed") =>
         /\ stream'[k] # "live"
         /\ context'[k] # "running"
         /\ graph'[k] \in {"none", "disconnected"}
         /\ interval'[k] # "running"
         /\ mediaStreamRef' # k
         /\ audioContextRef' # k
         /\ (nStarts = 1 => ~isRecording')]_vars

\* C21, as claimed: in every state at most one microphone stream is live, and every
\* live stream is the one mediaStreamRef holds, so that stopRecording() stops it.
C21_OneStreamHeldAndReachable ==
  /\ Cardinality({k \in Starts : stream[k] = "live"}) <= 1
  /\ \A k \in Starts : stream[k] = "live" => mediaStreamRef = k

\* C22, as claimed, in the case of a single startRecording() call: once the
\* recorder's component has unmounted, wherever that call stood at that moment
\* (suspended on getUserMedia, on addModule, or finished), from some moment on no
\* microphone stream is live.
C22_ReleasedAfterUnmount ==
  []((~recMounted /\ nStarts = 1) => <>[](\A k \in Starts : stream[k] # "live"))

\* What the recorder hook holds, without the record of the last operation.
sessionVars ==
  <<isRecording, isPaused, recordingTime, recorderError, audioUrl, audioContextRef,
    mediaStreamRef, workletNodeRef, sourceNodeRef, timerRef, startTimeRef,
    pausedTimeRef, isPausedRef, mediaRecorderRef, nStarts, startPc, stream, context,
    graph, recorder, interval, due, now, activeMs, nWorkletFrames, delivered,
    recMounted>>

\* The session is Recording / Paused.
Recording == isRecording /\ ~isPaused
Paused == isRecording /\ isPaused

\* A session that startRecording() call k brought to Recording has been stopped.
Stopped(k) == startPc[k] = "done" /\ recorder[k] \in {"stopping", "inactive"}

\* C23, as claimed: pauseRecording() changes something only in Recording and then
\* leads to Paused, resumeRecording() only in Paused and then leads to Recording, and
\* once a session has been stopped no step takes the hook to Recording or Paused.
C23_StoppedIsTerminal ==
  [][/\ recOp'[1] = "pauseRecording" =>
          IF Recording THEN Paused' ELSE sessionVars' = sessionVars
     /\ recOp'[1] = "resumeRecording" =>
          IF Paused THEN Recording' ELSE sessionVars' = sessionVars
     /\ (\E k \in Starts : Stopped(k)) => (~isRecording => ~isRecording')]_vars

\* C23, amended: pauseRecording() changes something only in Recording and then leads
\* to Paused; resumeRecording() only in Paused and then leads to Recording;
\* stopRecording() leaves the hook neither Recording nor Paused; the hook is never
\* Paused without being Recording; and it becomes Recording from not Recording only
\* when a startRecording() call completes, which it may do after a stop, whether
\* the call was made before the stop or after it.
C23_SessionTransitions ==
  [][/\ recOp'[1] = "pauseRecording" =>
          IF Recording THEN Paused' ELSE sessionVars' = sessionVars
     /\ recOp'[1] = "resumeRecording" =>
          IF Paused THEN Recording' ELSE sessionVars' = sessionVars
     /\ recOp' = <<"stopRecording", 0>> => (~isRecording' /\ ~isPaused')
     /\ isPaused' => isRecording'
     /\ (~isRecording /\ isRecording') => (recOp'[1] = "addModule" /\ Recording')
     /\ (~isPaused /\ isPaused') => recOp'[1] = "pauseRecording"
     /\ (Paused /\ Recording') => recOp'[1] \in {"resumeRecording", "addModule"}]_vars

\* A session was stopped and a startRecording() call has brought the hook back to
\* Recording, where it was then paused.
C23_Witness ==
  /\ Stopped(1)
  /\ startPc[2] = "done"
  /\ Paused
  /\ recOp = <<"pauseRecording", 0>>

\* The step is a handleFileUpload() call with a file.
UploadEvent == panelOp'[1] = "handleFileUpload" /\ panelOp'[2] # NoFile

\* No file over 25 MB is held as the uploaded file or was sent for transcription.
NoLargeFileAccepted ==
  /\ uploadedFile.size <= 25 * 1024 * 1024
  /\ \A i \in 1..Len(requests) : requests[i].file.size <= 25 * 1024 * 1024

\* C24, as claimed: handleFileUpload with a file of more than 25 MB leaves
\* uploadedFile as it was, makes no request and reports the size-exceeded reason;
\* with a file of exactly 25 MB of an accepted type it accepts the file; and no file
\* of more than 25 MB is ever held or sent.
C24_LargeFileReportsSize ==
  [][/\ (UploadEvent /\ panelOp'[2].size > 25 * 1024 * 1024) =>
          /\ uploadedFile' = uploadedFile
          /\ requests' = requests
          /\ panelError' = "fileTooLarge"
     /\ (UploadEvent /\ panelOp'[2].size = 25 * 1024 * 1024 /\ ValidType(panelOp'[2])) =>
          uploadedFile' = panelOp'[2]
     /\ NoLargeFileAccepted']_vars

\* C24, amended: handleFileUpload with a file of more than 25 MB leaves uploadedFile
\* as it was, makes no request and reports an error: the size-exceeded reason if the
\* file's type is accepted, the invalid-type reason if it is not, the type being
\* tested first; with a file of exactly 25 MB of an accepted type it accepts the
\* file; and no file of more than 25 MB is ever held or sent.
C24_LargeFileRejected ==
  [][/\ (UploadEvent /\ panelOp'[2].size > 25 * 1024 * 1024) =>
          /\ uploadedFile' = uploadedFile
          /\ requests' = requests
          /\ panelError' = IF ValidType(panelOp'[2]) THEN "fileTooLarge"
                           ELSE "invalidFileType"
     /\ (UploadEvent /\ panelOp'[2].size = 25 * 1024 * 1024 /\ ValidType(panelOp'[2])) =>
          (uploadedFile' = panelOp'[2] /\ panelError' = "null")
     /\ NoLargeFileAccepted']_vars

\* A file of 26 MB has just been refused for its size while a file of exactly 25 MB,
\* accepted before, is still the uploaded file.
C24_Witness ==
  /\ panelOp[1] = "handleFileUpload"
  /\ panelOp[2].size = 26 * 1024 * 1024
  /\ panelError = "fileTooLarge"
  /\ uploadedFile.size = 25 * 1024 * 1024

\* What a stopRecording() call has done by the time one of its teardown calls
\* raises shows the order of its steps.  The step is such a call, the n-th statement
\* of stopRecording() raising: 2 the worklet node's disconnect, 3 the source node's,
\* 4 audioContext.close, 5 mediaRecorder.stop.
StopRaisedAt(n) == recOp' = <<"stopRecording", n>>

\* The capture graph, the audio context, the MediaRecorder and the tracks as a
\* stopRecording() call leaves them when its n-th statement raises.
TeardownUpTo(n) ==
  /\ IF n > 3 /\ sourceNodeRef # 0
     THEN graph'[sourceNodeRef] = "disconnected" ELSE graph' = graph
  /\ IF n > 4 /\ audioContextRef # 0
     THEN context'[audioContextRef] = "closed" ELSE context' = context
  /\ recorder' = recorder
  /\ stream' = stream

\* C25, as claimed: the tick timer is cleared after the MediaRecorder is stopped, so
\* a stopRecording() call cut short at or before mediaRecorder.stop has disconnected
\* the nodes and closed the context that come before the raising call, and has left
\* the tick timer running and the tracks live.
C25_TickStoppedAfterRecorder ==
  [][\A n \in 2..5 : StopRaisedAt(n) =>
       (TeardownUpTo(n) /\ interval' = interval /\ timerRef' = timerRef)]_vars

\* C25, amended: stopRecording() stops the tick timer first, then disconnects the
\* worklet node and the source node, closes the audio context, stops the
\* MediaRecorder, and last stops the tracks: a call cut short at any of the calls in
\* between has cleared the timer, has done the steps before the raising call and
\* none after it, and has left the tracks live.
C25_TickStoppedFirst ==
  [][\A n \in 2..5 : StopRaisedAt(n) =>
       /\ TeardownUpTo(n)
       /\ timerRef' = 0
       /\ timerRef # 0 => interval'[timerRef] = "cleared"]_vars

\* mediaRecorder.stop() has raised in a session that was recording: the timer is
\* cleared, the graph disconnected and the context closed, the tracks are live.
C25_Witness ==
  /\ recOp = <<"stopRecording", 5>>
  /\ interval[1] = "cleared"
  /\ graph[1] = "disconnected"
  /\ context[1] = "closed"
  /\ recorder[1] = "recording"
  /\ stream[1] = "live"

\* The frames written to the sockets, in the order written: the payloads of `sent`
\* without the stop messages.  A frame's payload is its number in the order the
\* worklets posted the frames.
RECURSIVE FramesOf(_)
FramesOf(snt) ==
  IF snt = <<>> THEN <<>>
  ELSE IF Head(snt)[2] = StopMsg THEN FramesOf(Tail(snt))
  ELSE <<Head(snt)[2]>> \o FramesOf(Tail(snt))

\* The step delivers a transcript event.
TranscriptEvent == lastOp'[1] = "message" /\ lastOp'[2].type = "transcript"

\* s ends with t.
IsSuffix(t, s) == Len(t) <= Len(s) /\ SubSeq(s, Len(s) - Len(t) + 1, Len(s)) = t

\* C26: the frames written to the sockets are in the order the worklets posted them
\* (each frame written has a greater number than every frame written before it), and
\* a transcript event is applied when it arrives, on top of what the events before
\* it left: a final event with text puts its text at the end of the committed
\* transcript, after all that was committed before, and an interim event replaces the
\* interim text whatever interim events came before.
C26_CaptureAndArrivalOrder ==
  [][/\ \A i, j \in 1..Len(FramesOf(sent')) :
          i < j => FramesOf(sent')[i] < FramesOf(sent')[j]
     /\ (TranscriptEvent /\ lastOp'[2].is_final /\ Trim(lastOp'[2].text) # <<>>
         /\ lastOp'[2].text # Missing) =>
          /\ IsPrefix(transcript, transcript')
          /\ IsSuffix(Trim(lastOp'[2].text), transcript')
     /\ (TranscriptEvent /\ ~lastOp'[2].is_final /\ lastOp'[2].text # Missing) =>
          (interimTranscript' = lastOp'[2].text /\ transcript' = transcript)]_vars

\* Two frames have been written to the socket, the first posted before the second.
C26_Witness ==
  /\ FramesOf(sent) = <<1, 2>>
  /\ recOp[1] = "workletFrame"

\* The sockets the hook created that are connecting or open.
LiveSockets == {s \in Sockets : readyState[s] \in {"CONNECTING", "OPEN"}}

\* C27: in every state at most one socket the hook created is connecting or open,
\* and it is the current one; every other socket it created is closing or closed.
C27_AtMostOneLiveSocket ==
  /\ Cardinality(LiveSockets) <= 1
  /\ \A s \in LiveSockets : wsRef = s
  /\ \A s \in 1..nSockets : s # wsRef => readyState[s] \in {"CLOSING", "CLOSED"}

\* A second connect() has replaced a socket that was open: the old one is closing,
\* the new one is connecting.
C27_Witness ==
  /\ nSockets = 2
  /\ gotConnected[1]
  /\ readyState[1] = "CLOSING"
  /\ readyState[2] = "CONNECTING"
  /\ wsRef = 2

\* C28, as claimed: while the current socket is one whose connect() call has
\* resolved false, no step other than a new connect() call makes the link Open
\* (isConnected true or isReady() true).
C28_FailedConnectStaysClosed ==
  [][\A s \in Sockets :
       (wsRef = s /\ result[s] = "false" /\ ~isConnected /\ lastOp'[1] # "connect") =>
         (~isConnected' /\ ~IsReady')]_vars

\* C29, as claimed, for the close event of a socket that connect() has replaced:
\* the event of the stale socket changes neither isConnected nor isConnecting, which
\* belong to the newer connection.
C29_StaleCloseKeepsFlags ==
  [][\A s \in Sockets :
       (readyState[s] # "CLOSED" /\ readyState'[s] = "CLOSED" /\ wsRef # 0 /\ wsRef # s) =>
         (isConnected' = isConnected /\ isConnecting' = isConnecting)]_vars

\* A recording session is Recording or Paused, or is being started: the panel's
\* startRecording() or the recorder's is under way.
SessionLive ==
  \/ isRecording
  \/ panelPc # <<"idle", 0>>
  \/ \E k \in Starts : startPc[k] \in {"getUserMedia", "addModule"}

\* C30, as claimed: the recorder's startRecording() is called only by a panel call
\* whose connect() has resolved true, and in every state in which the link is Open a
\* recording session is Recording, Paused or being started.
C30_OpenLinkHasSession ==
  [][/\ nStarts' > nStarts => Connected
     /\ LinkOpen' => SessionLive']_vars

====
